---- MODULE Spec2Model ----
(***************************************************************************)
(* ArdhiChain: the client-side create-title protocol (AlgorandService),    *)
(* the public verification resolver (PublicVerification.handleSearch) and  *)
(* the content migrator (ContentMigrator), as state machines.              *)
(*                                                                         *)
(* Every await of the TypeScript code is a step boundary: an action is the *)
(* synchronous code between two awaits, and the outcome of the awaited     *)
(* call (ledger node, indexer, wallet, storage gateway) is chosen by \E.   *)
(***************************************************************************)
EXTENDS Integers, Sequences, FiniteSets, TLC

VARIABLES
    \* ---- ledger (shared, external) ----
    acctBal,        \* microAlgos held by the caller's account
    ctrBal,         \* microAlgos held by the contract account
    ctrAssets,      \* number of assets the contract account holds
    storedAdmin,    \* address under the "admin" global-state key, or NoAdmin
    drift,          \* number of outside debits of the contract account so far
    chainAssets,    \* the ledger's assets by identifier: decimals and total
    \* ---- createTitle(account, landId, metadataUrl, peraWallet) ----
    ct,             \* the run: its position pc, its arguments and its locals
    events,         \* transactions built / signed / submitted / confirmed, in order
    result,         \* what createTitle delivered to its caller
    \* ---- ledger and indexer view of one title asset ----
    asset,          \* asset.params as the indexer reports them
    holder,         \* the address holding the one unit
    optedIn,        \* addresses opted in to the asset
    history,        \* the asset's transactions, in ledger order
    round,          \* the current round
    \* ---- PublicVerification.handleSearch ----
    v_pc,           \* position of the handleSearch run
    v_txns,         \* transactions as returned by the first history read
    v_owner,        \* local currentOwner
    v_meta,         \* local metadata: "null" or "doc"
    v_result,       \* React state result (NoRecord = null)
    v_known,        \* TRUE when the indexer knows the asset identifier entered
    v_info,         \* the error getAssetInfo threw in this run, NoReadErr if none
    v_gw,           \* the gateway's answer to the metadata request of this run
    v_seen,         \* TRUE when a record was on display as this run started
    v_error,        \* React state error
    v_loading,      \* React state loading
    \* ---- storage backends (external) ----
    srcStore,       \* content behind the source gateway, by identifier
    tgtStore,       \* content behind the target gateway, by identifier
    \* ---- ContentMigrator ----
    cidMappings,    \* private Map original -> new, "" when absent
    m_lastOk,       \* per original: newCid of its latest successful migration, "" if none
    m_copy,         \* the Map a getCidMappings call handed out, as its caller holds it
    m_edits,        \* changes the caller has made to that Map
    m_op,           \* operation in progress: "idle" | "migrateAll" | "single" | "validate"
    m_ops,          \* operations started so far
    m_cids,         \* argument of migrateAllContent
    m_i,            \* index of the item (pair) being processed
    m_report,       \* MigrationReport under construction / returned
    m_threw,        \* TRUE when an operation rejected instead of resolving
    ms_pc,          \* position inside migrateSingleAsset
    ms_cid,         \* argument of migrateSingleAsset
    ms_data,        \* downloaded content
    ms_result,      \* MigrationResult the call resolved to
    ms_uploaded,    \* identifier the target provider returned to this call, "" if none
    val_pairs,      \* argument of validateMigration, in Map iteration order
    val_report,     \* ValidationReport under construction / returned
    val_seen,       \* per pair processed: what the two fetches delivered
    rb_calls,       \* calls of rollbackMigration so far
    rb_result,      \* how the last rollbackMigration call settled
    \* ---- IPFSServiceFactory ----
    m_waited,       \* milliseconds the migrateAllContent run spent in delay() so far
    f_env,          \* import.meta.env as the provider constructors and create read it
    instance,       \* private static instance, NoInstance = null
    f_made,         \* provider objects constructed so far (the next object is f_made + 1)
    f_calls,        \* factory calls so far
    f_ret,          \* the last factory call and how it settled
    f_epoch,        \* objects getInstance returned since the last resetInstance
    f_old,          \* objects getInstance returned before the last resetInstance
    \* ---- ledger read operations of AlgorandService ----
    r_op,           \* read operation in progress or last settled, "none" before any
    r_pc,           \* position inside it, "done" when settled
    r_attempt,      \* loop variable attempt of getAssetInfo
    r_err,          \* the error caught last by the operation, NoReadErr if none
    r_calls,        \* read operations started so far
    r_result,       \* how the operation settled
    r_waited,       \* milliseconds getAssetInfo has awaited between its attempts
    \* ---- AppProvider: the wallet session ----
    s_account,      \* React state account, Null = null
    s_connected,    \* React state isConnected
    s_inProgress,   \* React state connectionInProgress
    s_error,        \* React state connectionError, Null = null
    s_admin,        \* import.meta.env.VITE_ADMIN_ADDRESS
    s_reconnect,    \* the start-up effect: "notMounted" | "pending" | "settled"
    s_connect,      \* connectWallet: "idle" | "pending" (suspended at await connect())
    s_teardown,     \* peraWallet.disconnect(): "none" | "pending" | "ok" | "failed"
    s_ops,          \* connect / disconnect calls and wallet signals so far
    s_last,         \* the last wallet event or call and what it delivered
    \* ---- the wallet library and the remote wallet ----
    w_stored,       \* identities of the session persisted by an earlier visit
    w_remote,       \* TRUE while the remote wallet holds a session with this client
    w_connector,    \* peraWallet.connector: 0 = null, else the connector object
    w_made,         \* connector objects made so far
    w_listeners,    \* connector objects carrying the 'disconnect' listener
    \* ---- NodelyProvider / PinataProvider objects ----
    pv_env,         \* import.meta.env gateway settings as they are now
    pv_obj,         \* this.gatewayUrl of the provider object of each backend
    pv_pending,     \* backends whose validateConnection awaits its probe
    pv_net,         \* HTTP requests issued by the provider objects so far
    pv_calls,       \* provider method calls so far
    pv_last,        \* the last provider call that settled
    pv_urls,        \* every <<backend, cid, url>> getFileUrl returned
    \* ---- MigrationRunner.runBatchMigration ----
    b_config,       \* this.config: cids, batchSize, delayBetweenBatches
    b_pc,           \* position of the run
    b_i,            \* loop variable i of createBatches
    b_batches,      \* local batches of createBatches, then of runBatchMigration
    b_k,            \* loop variable i of runBatchMigration (0-based)
    b_migrated,     \* identifiers handed to migrateAllContent so far, in order
    b_saved,        \* batches whose progress was saved
    b_waits,        \* delays between batches awaited so far
    \* ---- two createTitle runs against the same contract ----
    race,           \* per run: position, caller and the locals of the funding block
    \* ---- write operations started from the pages ----
    w_page,         \* the route whose component is mounted
    w_isLoading,    \* AdminDashboard: isLoading
    w_isTransferring,   \* AdminDashboard: isTransferring
    w_myTransferring,   \* MyTitles: isTransferring
    w_flight,       \* the writes started so far, in order
    \* ---- the migration dashboard ----
    d_env,          \* credentials the build was configured with
    d_source,       \* MigrationDashboard: sourceProvider
    d_target,       \* MigrationDashboard: targetProvider
    d_isLoading,    \* MigrationDashboard: isLoading
    d_migrator,     \* the ContentMigrator of the latest run
    d_runs,         \* migrations started so far
    \* ---- the create form and the two transfer forms ----
    fm_demo,        \* isDemoMode()
    fm              \* per form: handler position, React state and the write it issued

ledgerVars == <<acctBal, ctrBal, ctrAssets, storedAdmin, drift, chainAssets>>
runVars == <<ct, events, result>>
createVars == <<ledgerVars, runVars>>
titleVars == <<asset, holder, optedIn, history, round>>
searchVars == <<v_pc, v_txns, v_owner, v_meta, v_result, v_error, v_loading,
                v_known, v_info, v_gw, v_seen>>
verifyVars == <<titleVars, searchVars>>
storeVars == <<srcStore, tgtStore>>
migratorVars == <<cidMappings, m_op, m_ops, m_cids, m_i, m_report, m_threw,
                  ms_pc, ms_cid, ms_data, ms_result, ms_uploaded,
                  val_pairs, val_report, val_seen>>
migAux == <<m_lastOk, m_copy, m_edits>>
migVars == <<storeVars, migratorVars, m_waited, migAux>>
rollbackVars == <<rb_calls, rb_result>>
factoryVars == <<f_env, instance, f_made, f_calls, f_ret, f_epoch, f_old>>
readVars == <<r_op, r_pc, r_attempt, r_err, r_calls, r_result, r_waited>>
sessionVars == <<s_account, s_connected, s_inProgress, s_error, s_admin, s_reconnect,
                 s_connect, s_teardown, s_ops, s_last>>
walletVars == <<w_stored, w_remote, w_connector, w_made, w_listeners>>
appVars == <<sessionVars, walletVars>>
providerVars == <<pv_env, pv_obj, pv_pending, pv_net, pv_calls, pv_last, pv_urls>>
batchVars == <<b_config, b_pc, b_i, b_batches, b_k, b_migrated, b_saved, b_waits>>
raceVars == <<race>>
writeVars == <<w_page, w_isLoading, w_isTransferring, w_myTransferring, w_flight>>
dashVars == <<d_env, d_source, d_target, d_isLoading, d_migrator, d_runs>>
formVars == <<fm_demo, fm>>
pageVars == <<dashVars, formVars>>
extVars == <<providerVars, batchVars, raceVars, writeVars, pageVars>>
restVars == <<rollbackVars, factoryVars, readVars, appVars, extVars>>
vars == <<createVars, verifyVars, migVars, restVars>>

-----------------------------------------------------------------------------
(* Bounds of the model *)

MaxExistingAssets == 2      \* assets already held by the contract
MaxInner == 2               \* length of the inner-transaction list
MaxDrift == 1               \* outside debits of the contract account

-----------------------------------------------------------------------------
(* Program constants of createTitle *)

txnFee == 1000
innerTxnFee == 1000
maxFundingNeeded == 300000
\* the funding reserve left out of the minimum
minRequired_NoReserve == txnFee + innerTxnFee

minRequired == txnFee + innerTxnFee + maxFundingNeeded

baseMinBalance == 100000
perAssetMinBalance == 100000
feeBuffer == 10000
fundingBuffer == 50000
maxRetries == 3
retryDelay == 1000

NoAdmin == "none"
Accounts == {"ADMIN", "OTHER"}
LandIds == {"LR/2024/001", "LR/2024/002"}
MetadataUrls == {"ipfs://QmA", "QmA"}
AcctBalances == {500, 1500, 301999, 302000, 1000000}
CtrBalances == {0, 209999, 210000, 310000, 500000}
DriftAmounts == {100000}
AssetIds == {7, 9}

\* metadataUrl.replace('ipfs://', '')
StripIpfs(url) == IF url = "ipfs://QmA" THEN "QmA" ELSE url

\* targetBalance / minContractBalance for a contract holding `existing` assets
minContractBalance(existing) ==
    baseMinBalance + perAssetMinBalance * (existing + 1) + feeBuffer

\* fundingAmount = targetBalance - contractInfo.amount + 50000
fundingAmount(target, amount) == target - amount + fundingBuffer

-----------------------------------------------------------------------------
(* Errors.  An error is [isError, msg]; Text(msg) is the set of the probe     *)
(* substrings (those the catch blocks test with includes()) that the message *)
(* text contains.  "lc:" marks a probe tested on the lower-cased message.    *)

\* shown: the numbers the message text states, in order
Err(m) == [isError |-> TRUE, msg |-> m, assetId |-> 0, status |-> "", shown |-> <<>>]
NonErr == [isError |-> FALSE, msg |-> "NonErrorValue", assetId |-> 0, status |-> "",
           shown |-> <<>>]

\* `Insufficient funds: Account has ${balance} microAlgos, but at least
\* ${minRequired} microAlgos are required (...)`
InsufficientErr(balance) ==
    [Err("InsufficientFunds") EXCEPT !.shown = <<balance, minRequired>>]

Text(m) ==
    CASE m = "InsufficientFunds"      -> {"Insufficient funds", "lc:insufficient funds"}
      [] m = "FundingNotSufficient"   -> {"Contract funding was not sufficient", "lc:balance"}
      [] m = "AlgodOverspend"         -> {"TransactionPool.Remember", "overspend"}
      [] m = "AlgodBelowMin"          -> {"TransactionPool.Remember", "lc:balance", "lc:below min"}
      [] m = "NetworkDown"            -> {"network"}
      [] m = "ConfirmTimeout"         -> {}
      [] m = "UserRejected"           -> {}
      [] OTHER                        -> {}

Has(e, probe) == e.isError /\ probe \in Text(e.msg)

WalletErrs == {Err("UserRejected"), NonErr}
NodeErrs == {Err("NetworkDown")}
SubmitErrs == {Err("AlgodOverspend"), Err("AlgodBelowMin"), Err("NetworkDown")}
ConfirmErrs == {Err("ConfirmTimeout"), Err("NetworkDown")}

\* catch (error) of the pre-flight block: TRUE when the error is re-thrown
PreflightRethrows(e) == Has(e, "Insufficient funds")

\* the funding catch swallowing its own balance errors as well
FundingRethrows_Never(e) == FALSE

\* catch (error) of the funding block: TRUE when the error is re-thrown
FundingRethrows(e) ==
    e.isError /\ (\/ "Contract funding was not sufficient" \in Text(e.msg)
                  \/ "Contract balance" \in Text(e.msg)
                  \/ "below required minimum" \in Text(e.msg))

NoResult == [kind |-> "none", value |-> 0, msg |-> "", inner |-> "",
             assetId |-> 0, status |-> "", shown |-> <<>>]
Returned(v) == [kind |-> "return", value |-> v, msg |-> "", inner |-> "",
                assetId |-> 0, status |-> "", shown |-> <<>>]
Thrown(m, in) == [kind |-> "throw", value |-> 0, msg |-> m, inner |-> in,
                  assetId |-> 0, status |-> "", shown |-> <<>>]

\* catch (error: unknown) of createTitle: every path throws a new Error built
\* from the message text only; fields of the caught error are not copied.
OuterCatch(e) ==
    IF Has(e, "lc:balance") /\ Has(e, "lc:below min")
        THEN Thrown("ContractNeedsMoreFunds", "")
    ELSE IF Has(e, "overspend") \/ Has(e, "Insufficient funds")
        THEN Thrown("InsufficientFundsWallet", "")
    ELSE IF Has(e, "TransactionPool.Remember")
        THEN Thrown("RejectedByNetwork", "")
    ELSE IF Has(e, "timeout") \/ Has(e, "network") \/ Has(e, "failed to fetch")
        THEN Thrown("NetworkIssue", "")
    \* `Failed to create title: ${error.message}`: the caught text is quoted
    ELSE [Thrown("FailedToCreateTitle", IF e.isError THEN e.msg ELSE "Unknown error")
             EXCEPT !.shown = e.shown]

-----------------------------------------------------------------------------
(* createTitle *)

PendingErr(id) == [isError |-> TRUE, msg |-> "PendingVerification",
                   assetId |-> id, status |-> "PENDING_VERIFICATION", shown |-> <<id>>]

\* the run continues at position p with locals c
Goto(c, p) == /\ ct' = [c EXCEPT !.pc = p]
              /\ UNCHANGED result

\* a throw that reaches the outer catch of createTitle ends the run
Throw(c, e) == /\ ct' = [c EXCEPT !.pc = "done"]
               /\ result' = OuterCatch(e)

\* assets of other creators that are on the ledger before the call
ForeignAssetIds == {1, 2}
NoAsset == [exists |-> FALSE, decimals |-> 0, total |-> 0]
ForeignAsset(id) == [exists |-> TRUE, decimals |-> IF id = 1 THEN 2 ELSE 0, total |-> 10]
InitAssets ==
    [id \in AssetIds \cup ForeignAssetIds |->
        IF id \in ForeignAssetIds THEN ForeignAsset(id) ELSE NoAsset]

\* the asset the contract's create_title configures in its inner transaction:
\* one indivisible unit
ContractAssetParams == [exists |-> TRUE, decimals |-> 0, total |-> 1]

\* the ledger after the call confirmed: every assetIndex the inner transactions
\* report is an asset this call created
Minted(assets, inner) ==
    [id \in DOMAIN assets |->
        IF \E k \in 1..Len(inner) : inner[k] = id THEN ContractAssetParams
        ELSE assets[id]]

InitLedger ==
    /\ acctBal \in AcctBalances
    /\ ctrBal \in CtrBalances
    /\ ctrAssets \in 0..MaxExistingAssets
    /\ storedAdmin \in Accounts \cup {NoAdmin}
    /\ drift = 0
    /\ chainAssets = InitAssets

\* no answer of lookupAssetByID yet, or the lookup rejected
NoParams == [name |-> "", url |-> ""]

\* locals of a run that has not started
Locals(p, acct, land, url) ==
    [pc |-> p, account |-> acct, landId |-> land, metadataUrl |-> url,
     op |-> "createTitle",      \* the operation invoked
     balanceRead |-> "unread",  \* outcome of the pre-flight read
     balance |-> -1,            \* accountInfo.amount, -1 while not read
     ctrBalRead |-> -1,         \* contractInfo.amount, -1 while not read
     minCtr |-> 0,              \* minContractBalance, 0 while not computed
     ctrBalReread |-> -1,       \* updatedContractInfo.amount, -1 while not read
     fundState |-> "none",      \* progress of the self-funding block
     adminCheck |-> "none",     \* outcome of the admin check
     innerTxns |-> <<>>,        \* confirmedTxn.innerTxns as assetIndex values, 0 = none
     assetId |-> 0,             \* extracted asset identifier, 0 while none
     attempt |-> 0,             \* loop variable i of the verification loop
     lookups |-> 0,             \* indexer lookups issued by the verification loop
     waited |-> 0,              \* milliseconds awaited by the verification loop
     found |-> NoParams]        \* asset.params of the latest lookup, if it answered

InitRun ==
    /\ ct \in {Locals("start", a, l, u) : a \in Accounts, l \in LandIds, u \in MetadataUrls}
    /\ events = <<>>
    /\ result = NoResult

\* Pre-flight: accountInformation(account), balance < minRequired
CT_Preflight ==
    /\ ct.pc = "start"
    /\ \/ LET c == [ct EXCEPT !.balanceRead = "ok", !.balance = acctBal]
          IN  IF acctBal < minRequired
                 THEN \* thrown, then re-thrown by the inner catch
                      IF PreflightRethrows(InsufficientErr(acctBal))
                         THEN Throw(c, InsufficientErr(acctBal))
                         ELSE Goto(c, "params")
                 ELSE Goto(c, "params")
       \/ \E e \in NodeErrs :
          LET c == [ct EXCEPT !.balanceRead = "failed"]
          IN  IF PreflightRethrows(e)
                 THEN Throw(c, e)
                 ELSE Goto(c, "params")     \* "Continue even if we can't check"
    /\ UNCHANGED <<ledgerVars, events>>
    /\ UNCHANGED <<verifyVars, migVars, restVars>>

\* algodClient.getTransactionParams()
CT_GetParams ==
    /\ ct.pc = "params"
    /\ \/ Goto(ct, "contractInfo")
       \/ \E e \in NodeErrs : Throw(ct, e)
    /\ UNCHANGED <<ledgerVars, events>>
    /\ UNCHANGED <<verifyVars, migVars, restVars>>

\* catch (error) of the funding block, entered from a step that left state st
FundingCaught(e, st) ==
    IF FundingRethrows(e)
        THEN Throw([ct EXCEPT !.fundState = "insufficient", !.ctrBalReread = st], e)
        ELSE \* "Continuing despite error"
             Goto([ct EXCEPT !.fundState = "failed", !.ctrBalReread = st], "adminCheck")

\* accountInformation(appAddress); minimum computation; funding payment built
CT_ContractInfo ==
    /\ ct.pc = "contractInfo"
    /\ \/ LET min == minContractBalance(ctrAssets)
              c == [ct EXCEPT !.ctrBalRead = ctrBal, !.minCtr = min]
          IN  IF ctrBal < min
                 THEN /\ Goto([c EXCEPT !.fundState = "needed"], "fundSign")
                      /\ events' = Append(events, "build_funding")
                 ELSE /\ Goto([c EXCEPT !.fundState = "notneeded"], "adminCheck")
                      /\ UNCHANGED events
       \/ \E e \in NodeErrs :
          /\ IF FundingRethrows(e)
                THEN Throw([ct EXCEPT !.fundState = "unread"], e)
                ELSE Goto([ct EXCEPT !.fundState = "unread"], "adminCheck")
          /\ UNCHANGED events
    /\ UNCHANGED ledgerVars
    /\ UNCHANGED <<verifyVars, migVars, restVars>>

\* peraWallet.signTransaction([fundingTxnGroup])
CT_FundSign ==
    /\ ct.pc = "fundSign"
    /\ \/ /\ Goto(ct, "fundSubmit")
          /\ events' = Append(events, "sign_funding")
       \/ \E e \in WalletErrs :
          /\ FundingCaught(e, -1)
          /\ UNCHANGED events
    /\ UNCHANGED ledgerVars
    /\ UNCHANGED <<verifyVars, migVars, restVars>>

\* algodClient.sendRawTransaction(flattenedSignedFundingTxn)
CT_FundSubmit ==
    /\ ct.pc = "fundSubmit"
    /\ LET cost == fundingAmount(ct.minCtr, ct.ctrBalRead) + txnFee
       IN \/ /\ acctBal >= cost
             /\ Goto(ct, "fundConfirm")
             /\ events' = Append(events, "submit_funding")
          \/ \E e \in SubmitErrs :
             /\ e.msg = "AlgodOverspend" <=> acctBal < cost
             /\ e.msg # "AlgodBelowMin"
             /\ FundingCaught(e, -1)
             /\ UNCHANGED events
    /\ UNCHANGED ledgerVars
    /\ UNCHANGED <<verifyVars, migVars, restVars>>

\* algosdk.waitForConfirmation(algodClient, fundingTxnResult.txid, 4)
CT_FundConfirm ==
    /\ ct.pc = "fundConfirm"
    /\ \/ /\ Goto(ct, "fundReread")
          /\ events' = Append(events, "confirm_funding")
          /\ ctrBal' = ctrBal + fundingAmount(ct.minCtr, ct.ctrBalRead)
          /\ acctBal' = acctBal - fundingAmount(ct.minCtr, ct.ctrBalRead) - txnFee
       \/ \E e \in ConfirmErrs :
          /\ FundingCaught(e, -1)
          /\ UNCHANGED <<events, ctrBal, acctBal>>
    /\ UNCHANGED <<ctrAssets, storedAdmin, drift, chainAssets>>
    /\ UNCHANGED <<verifyVars, migVars, restVars>>

\* accountInformation(appAddress) again; updatedContractInfo.amount < minContractBalance
CT_FundReread ==
    /\ ct.pc = "fundReread"
    /\ \/ IF ctrBal < ct.minCtr
             THEN FundingCaught(Err("FundingNotSufficient"), ctrBal)
             ELSE Goto([ct EXCEPT !.fundState = "verified", !.ctrBalReread = ctrBal],
                       "adminCheck")
       \/ \E e \in NodeErrs : FundingCaught(e, -1)
    /\ UNCHANGED <<ledgerVars, events>>
    /\ UNCHANGED <<verifyVars, migVars, restVars>>

\* the admin check without the comparison against the caller
AdminFinding_NoCompare(readable, stored, acct) ==
    IF ~readable THEN "unreadable"
    ELSE IF stored = NoAdmin THEN "missing"
    ELSE "ok"

\* what the admin check finds: the global state could be read or not
AdminFinding(readable, stored, acct) ==
    IF ~readable THEN "unreadable"
    ELSE IF stored = NoAdmin THEN "missing"
    ELSE IF stored # acct THEN "mismatch"
    ELSE "ok"

\* getApplicationByID(appId); admin entry lookup; storedAdmin !== account; catch
CT_AdminCheck ==
    /\ ct.pc = "adminCheck"
    /\ \E readable \in BOOLEAN :
       LET found == AdminFinding(readable, storedAdmin, ct.account)
           c == [ct EXCEPT !.adminCheck = found]
       IN  IF found = "ok"
              THEN Goto(c, "build")
              ELSE Throw(c, Err("AdminVerifyFailed"))
    /\ UNCHANGED <<ledgerVars, events>>
    /\ UNCHANGED <<verifyVars, migVars, restVars>>

\* atc.addMethodCall({... create_title ...})
CT_BuildAppCall ==
    /\ ct.pc = "build"
    /\ Goto(ct, "sign")
    /\ events' = Append(events, "build_appcall")
    /\ UNCHANGED ledgerVars
    /\ UNCHANGED <<verifyVars, migVars, restVars>>

\* atc.execute: the signer asks the wallet
CT_Sign ==
    /\ ct.pc = "sign"
    /\ \/ /\ Goto(ct, "submit")
          /\ events' = Append(events, "sign_appcall")
       \/ \E e \in WalletErrs :
          /\ Throw(ct, e)
          /\ UNCHANGED events
    /\ UNCHANGED ledgerVars
    /\ UNCHANGED <<verifyVars, migVars, restVars>>

\* atc.execute: the signed group is submitted
CT_Submit ==
    /\ ct.pc = "submit"
    /\ \/ /\ acctBal >= txnFee
          /\ Goto(ct, "confirm")
          /\ events' = Append(events, "submit_appcall")
       \/ \E e \in SubmitErrs :
          /\ e.msg = "AlgodOverspend" <=> acctBal < txnFee
          /\ Throw(ct, e)
          /\ UNCHANGED events
    /\ UNCHANGED ledgerVars
    /\ UNCHANGED <<verifyVars, migVars, restVars>>

\* the inner-transaction lists a confirmed call can carry
InnerLists == UNION {[1..n -> AssetIds \cup {0}] : n \in 0..MaxInner}

\* atc.execute waits for the round, then waitForConfirmation(result.txIDs[0], 4)
CT_Confirm ==
    /\ ct.pc = "confirm"
    /\ \/ \E inner \in InnerLists :
          /\ Goto([ct EXCEPT !.innerTxns = inner], "extract")
          /\ events' = Append(events, "confirm_appcall")
          /\ acctBal' = acctBal - txnFee
          /\ ctrAssets' = ctrAssets + (IF \E k \in 1..Len(inner) : inner[k] # 0 THEN 1 ELSE 0)
          /\ chainAssets' = Minted(chainAssets, inner)
       \/ \E e \in ConfirmErrs :
          /\ Throw(ct, e)
          /\ UNCHANGED <<events, acctBal, ctrAssets, chainAssets>>
    /\ UNCHANGED <<ctrBal, storedAdmin, drift>>
    /\ UNCHANGED <<verifyVars, migVars, restVars>>

\* the loop taking the position of the entry instead of its assetIndex
FirstAssetIndex_Position(inner) ==
    IF \A k \in 1..Len(inner) : inner[k] = 0 THEN 0
    ELSE CHOOSE k \in 1..Len(inner) : inner[k] # 0 /\ \A j \in 1..(k - 1) : inner[j] = 0

\* for (const innerTxn of innerTxns): the first truthy assetIndex
RECURSIVE FirstAssetIndex(_)
FirstAssetIndex(inner) ==
    IF inner = <<>> THEN 0
    ELSE IF Head(inner) # 0 THEN Head(inner)
    ELSE FirstAssetIndex(Tail(inner))

\* asset id extraction and the two failures of it
CT_Extract ==
    /\ ct.pc = "extract"
    /\ LET id == FirstAssetIndex(ct.innerTxns)
           c == [ct EXCEPT !.assetId = id]
       IN  IF id = 0
              THEN IF Len(ct.innerTxns) = 0
                      THEN Throw(c, Err("NoInnerTxns"))
                      ELSE Throw(c, Err("NoAssetIndex"))
              ELSE Goto(c, "verify")
    /\ UNCHANGED <<ledgerVars, events>>
    /\ UNCHANGED <<verifyVars, migVars, restVars>>

\* what indexerClient.lookupAssetByID(assetId) can answer: asset.params
IndexerParams == [name : LandIds, url : {"QmA", "ipfs://QmA"}]

\* a verification that accepts the asset on its name alone
ParamsMatch_NameOnly(params, land, url) == params.name = land

\* params.name === landId && params.url === metadataUrl.replace('ipfs://', '')
ParamsMatch(params, land, url) == params.name = land /\ params.url = StripIpfs(url)

\* one iteration of  for (let i = 0; i < maxRetries; i++): the lookup, the
\* comparison and the delay that follows a mismatch or a failed lookup
CT_Verify ==
    /\ ct.pc = "verify"
    /\ ct.attempt < maxRetries
    /\ LET c == [ct EXCEPT !.lookups = @ + 1]
           next == [c EXCEPT !.attempt = @ + 1]
           after == IF ct.attempt + 1 < maxRetries THEN "verify" ELSE "pending"
       IN \/ \E params \in IndexerParams :
             IF ParamsMatch(params, ct.landId, ct.metadataUrl)
                THEN /\ ct' = [c EXCEPT !.pc = "done", !.found = params]
                     /\ result' = Returned(ct.assetId)
                ELSE \* mismatch: the delay is awaited after every attempt
                     Goto([next EXCEPT !.found = params, !.waited = @ + retryDelay],
                          after)
          \/ \* the lookup threw (404, network): if (i < maxRetries - 1) delay
             Goto([next EXCEPT !.found = NoParams,
                               !.waited = IF ct.attempt < maxRetries - 1
                                            THEN @ + retryDelay ELSE @],
                  after)
    /\ UNCHANGED <<ledgerVars, events>>
    /\ UNCHANGED <<verifyVars, migVars, restVars>>

\* after the loop: err.status = 'PENDING_VERIFICATION'; throw err
CT_Pending ==
    /\ ct.pc = "pending"
    /\ Throw(ct, PendingErr(ct.assetId))
    /\ UNCHANGED <<ledgerVars, events>>
    /\ UNCHANGED <<verifyVars, migVars, restVars>>

\* the contract account is debited by activity outside this run
LedgerDrift ==
    /\ ct.pc \in {"fundSign", "fundSubmit", "fundConfirm", "fundReread"}
    /\ drift < MaxDrift
    /\ \E d \in DriftAmounts :
          /\ ctrBal >= d
          /\ ctrBal' = ctrBal - d
    /\ drift' = drift + 1
    /\ UNCHANGED <<acctBal, ctrAssets, storedAdmin, chainAssets, runVars>>
    /\ UNCHANGED <<verifyVars, migVars, restVars>>

-----------------------------------------------------------------------------
(* adminTransferTitle, userTransferTitle *)

TransferOps == {"adminTransferTitle", "userTransferTitle"}

\* locals of a transfer (account, assetId, receiverAddress, peraWallet) not yet started
TransferLocals(o, acct, id) ==
    [Locals("transfer", acct, "", "") EXCEPT !.op = o, !.assetId = id]

InitTransfer ==
    /\ ct \in {TransferLocals(o, a, id) : o \in TransferOps, a \in Accounts, id \in AssetIds}
    /\ events = <<>>
    /\ result = NoResult

TransferEvent(step, o) ==
    CASE step = "build"   -> IF o = "adminTransferTitle" THEN "build_admin_transfer"
                                                          ELSE "build_user_transfer"
      [] step = "sign"    -> IF o = "adminTransferTitle" THEN "sign_admin_transfer"
                                                          ELSE "sign_user_transfer"
      [] step = "submit"  -> IF o = "adminTransferTitle" THEN "submit_admin_transfer"
                                                          ELSE "submit_user_transfer"
      [] step = "confirm" -> IF o = "adminTransferTitle" THEN "confirm_admin_transfer"
                                                          ELSE "confirm_user_transfer"

\* a catch that sends the call again instead of re-throwing
TransferThrow_Resubmits(c, e) ==
    /\ ct' = [c EXCEPT !.pc = IF c.pc = "t_confirm" THEN "t_submit" ELSE "done"]
    /\ result' = IF c.pc = "t_confirm" THEN result
                 ELSE Thrown("FailedToTransferTitle",
                             IF e.isError THEN e.msg ELSE "Unknown error")

\* catch (error): throw new Error(`Failed to transfer title: ${...}`)
TransferThrow(c, e) ==
    /\ ct' = [c EXCEPT !.pc = "done"]
    /\ result' = Thrown("FailedToTransferTitle",
                        IF e.isError THEN e.msg ELSE "Unknown error")

\* algodClient.getTransactionParams(); atc.addMethodCall({...})
TR_GetParams ==
    /\ ct.pc = "transfer"
    /\ \/ /\ Goto(ct, "t_sign")
          /\ events' = Append(events, TransferEvent("build", ct.op))
       \/ \E e \in NodeErrs :
          /\ TransferThrow(ct, e)
          /\ UNCHANGED events
    /\ UNCHANGED ledgerVars
    /\ UNCHANGED <<verifyVars, migVars, restVars>>

\* atc.execute: the signer asks the wallet
TR_Sign ==
    /\ ct.pc = "t_sign"
    /\ \/ /\ Goto(ct, "t_submit")
          /\ events' = Append(events, TransferEvent("sign", ct.op))
       \/ \E e \in WalletErrs :
          /\ TransferThrow(ct, e)
          /\ UNCHANGED events
    /\ UNCHANGED ledgerVars
    /\ UNCHANGED <<verifyVars, migVars, restVars>>

\* atc.execute: the signed call is submitted
TR_Submit ==
    /\ ct.pc = "t_submit"
    /\ \/ /\ acctBal >= txnFee
          /\ Goto(ct, "t_confirm")
          /\ events' = Append(events, TransferEvent("submit", ct.op))
       \/ \E e \in SubmitErrs :
          /\ e.msg = "AlgodOverspend" <=> acctBal < txnFee
          /\ TransferThrow(ct, e)
          /\ UNCHANGED events
    /\ UNCHANGED ledgerVars
    /\ UNCHANGED <<verifyVars, migVars, restVars>>

\* atc.execute(algodClient, 4): the wait for the round; the method returns void
TR_Confirm ==
    /\ ct.pc = "t_confirm"
    /\ \/ /\ ct' = [ct EXCEPT !.pc = "done"]
          /\ result' = Returned(0)
          /\ events' = Append(events, TransferEvent("confirm", ct.op))
          /\ acctBal' = acctBal - txnFee
       \/ \E e \in ConfirmErrs :
          /\ TransferThrow(ct, e)
          /\ UNCHANGED <<events, acctBal>>
    /\ UNCHANGED <<ctrBal, ctrAssets, storedAdmin, drift, chainAssets>>
    /\ UNCHANGED <<verifyVars, migVars, restVars>>

-----------------------------------------------------------------------------
(* Ledger read operations: searchAssetsByUnitName, getContractAssets,        *)
(* getAccountAssets, getAssetInfo, getAssetTransactions                      *)

MaxReadCalls == 2           \* read operations started

infoMaxRetries == 3         \* getAssetInfo: const maxRetries
infoRetryDelay == 1000      \* getAssetInfo: const retryDelay

ReadOps == {"searchAssetsByUnitName", "getContractAssets", "getAccountAssets",
            "getAssetInfo", "getAssetTransactions"}

\* what an awaited indexer / node / fetch call can reject with: the class of the
\* value, its name, and which of the probed substrings its message contains
NoReadErr == [isError |-> FALSE, name |-> "", has |-> {}, id |-> "none"]
ReadErrs ==
    { [isError |-> TRUE, name |-> "Error", id |-> "404account",
       has |-> {"status 404", "no accounts found for address"}],
      [isError |-> TRUE, name |-> "Error", id |-> "404asset", has |-> {"status 404"}],
      [isError |-> TRUE, name |-> "Error", id |-> "500", has |-> {}],
      [isError |-> TRUE, name |-> "TypeError", id |-> "fetch", has |-> {"Failed to fetch"}],
      [isError |-> TRUE, name |-> "TypeError", id |-> "shape", has |-> {}],
      [isError |-> FALSE, name |-> "", id |-> "value", has |-> {}] }

NoRead == [kind |-> "none", value |-> "", err |-> NoReadErr]
ReadReturns(v) == [kind |-> "return", value |-> v, err |-> NoReadErr]
ReadThrows(e) == [kind |-> "throw", value |-> "", err |-> e]
UnableToConnect == [isError |-> TRUE, name |-> "Error", id |-> "UnableToConnect", has |-> {}]

\* response.assets || [],  account.assets || [],  transactions.transactions || []
Lists == {"list", "empty"}

\* a catch of getAssetTransactions that swallows every error
TransactionsRethrows_Never(e) == FALSE

\* getAssetTransactions, catch: message includes 'Failed to fetch' or name is TypeError
TransactionsRethrows(e) ==
    e.isError /\ ("Failed to fetch" \in e.has \/ e.name = "TypeError")

\* getAssetInfo, catch: error.message.includes('status 404')
IsNotFound(e) == e.isError /\ "status 404" \in e.has

InitReads ==
    /\ r_op = "none"
    /\ r_pc = "done"
    /\ r_attempt = 0
    /\ r_err = NoReadErr
    /\ r_calls = 0
    /\ r_result = NoRead
    /\ r_waited = 0

R_Call ==
    /\ r_pc = "done"
    /\ r_calls < MaxReadCalls
    /\ r_calls' = r_calls + 1
    /\ \E op \in ReadOps :
          /\ r_op' = op
          /\ r_pc' = IF op \in {"getContractAssets", "getAssetInfo"} THEN "account" ELSE "await"
    /\ r_attempt' = 0
    /\ r_err' = NoReadErr
    /\ r_result' = NoRead
    /\ r_waited' = 0
    /\ UNCHANGED <<createVars, verifyVars, migVars, extVars, rollbackVars, factoryVars, appVars>>

ReadSettles(res, e) ==
    /\ r_result' = res
    /\ r_err' = e
    /\ r_pc' = "done"
    /\ UNCHANGED <<r_op, r_attempt, r_calls>>

\* searchAssetsByUnitName: searchForAssets().unit(unitName).do()
R_Search ==
    /\ r_op = "searchAssetsByUnitName" /\ r_pc = "await"
    /\ \/ \E v \in Lists : ReadSettles(ReadReturns(v), NoReadErr)
       \/ \E e \in ReadErrs : ReadSettles(ReadReturns("empty"), e)
    /\ UNCHANGED <<createVars, verifyVars, migVars, extVars, rollbackVars, factoryVars, appVars,
                   r_waited>>

\* getAccountAssets: lookupAccountByID(address).do(); both catch branches return []
R_AccountAssets ==
    /\ r_op = "getAccountAssets" /\ r_pc = "await"
    /\ \/ \E v \in Lists : ReadSettles(ReadReturns(v), NoReadErr)
       \/ \E e \in ReadErrs : ReadSettles(ReadReturns("empty"), e)
    /\ UNCHANGED <<createVars, verifyVars, migVars, extVars, rollbackVars, factoryVars, appVars,
                   r_waited>>

\* getContractAssets, first await: algodClient.accountInformation(appAddress).do();
\* also the first await of getAssetInfo, which starts with getContractAssets
R_ContractAccount ==
    /\ r_op \in {"getContractAssets", "getAssetInfo"} /\ r_pc = "account"
    /\ \/ /\ r_pc' = "assets"
          /\ UNCHANGED <<r_op, r_attempt, r_err, r_calls, r_result>>
       \/ \E e \in ReadErrs :
          IF r_op = "getContractAssets"
             THEN ReadSettles(ReadReturns("empty"), e)
             ELSE /\ r_pc' = "fetch"          \* contractAssets = []
                  /\ r_attempt' = 1
                  /\ r_err' = e
                  /\ UNCHANGED <<r_op, r_calls, r_result>>
    /\ UNCHANGED <<createVars, verifyVars, migVars, extVars, rollbackVars, factoryVars, appVars,
                   r_waited>>

\* getContractAssets, second await: this.getAccountAssets(appAddress), which
\* returns a list whatever the indexer answers
R_ContractAssets ==
    /\ r_op \in {"getContractAssets", "getAssetInfo"} /\ r_pc = "assets"
    /\ \E v \in Lists, e \in ReadErrs \cup {NoReadErr} :
          LET got == IF e = NoReadErr THEN v ELSE "empty"
          IN IF r_op = "getContractAssets"
                THEN ReadSettles(ReadReturns(got), e)
                ELSE /\ r_pc' = "fetch"
                     /\ r_attempt' = 1
                     /\ r_err' = e
                     /\ UNCHANGED <<r_op, r_calls, r_result>>
    /\ UNCHANGED <<createVars, verifyVars, migVars, extVars, rollbackVars, factoryVars, appVars,
                   r_waited>>

\* a catch that retries not-found answers only and throws every other error at once
InfoCaught_RetryOnlyNotFound(e) ==
    /\ r_err' = e
    /\ IF IsNotFound(e) /\ r_attempt < infoMaxRetries
          THEN /\ r_pc' = "delay"
               /\ UNCHANGED <<r_op, r_attempt, r_calls, r_result>>
          ELSE /\ r_result' = ReadThrows(e)
               /\ r_pc' = "done"
               /\ UNCHANGED <<r_op, r_attempt, r_calls>>

\* getAssetInfo, catch of one attempt
InfoCaught(e) ==
    /\ r_err' = e
    /\ IF IsNotFound(e) /\ r_attempt < infoMaxRetries
          THEN /\ r_pc' = "delay"           \* wait, continue
               /\ UNCHANGED <<r_op, r_attempt, r_calls, r_result>>
          ELSE IF r_attempt = infoMaxRetries
                  THEN /\ r_result' = ReadThrows(e)  \* throw error
                       /\ r_pc' = "done"
                       /\ UNCHANGED <<r_op, r_attempt, r_calls>>
                  ELSE /\ r_pc' = "delay"
                       /\ UNCHANGED <<r_op, r_attempt, r_calls, r_result>>

\* getAssetInfo: await fetch(directUrl)
R_InfoFetch ==
    /\ r_op = "getAssetInfo" /\ r_pc = "fetch"
    /\ \/ /\ r_pc' = "lookup"
          /\ UNCHANGED <<r_op, r_attempt, r_err, r_calls, r_result>>
       \/ \E e \in {x \in ReadErrs : x.id = "fetch"} : InfoCaught(e)
    /\ UNCHANGED <<createVars, verifyVars, migVars, extVars, rollbackVars, factoryVars, appVars,
                   r_waited>>

\* getAssetInfo: await indexerClient.lookupAssetByID(assetId).do(); return assetInfo.asset
R_InfoLookup ==
    /\ r_op = "getAssetInfo" /\ r_pc = "lookup"
    /\ \/ ReadSettles(ReadReturns("asset"), r_err)
       \/ \E e \in {x \in ReadErrs : x.id # "404account"} : InfoCaught(e)
    /\ UNCHANGED <<createVars, verifyVars, migVars, extVars, rollbackVars, factoryVars, appVars,
                   r_waited>>

\* getAssetInfo: await new Promise(resolve => setTimeout(resolve, retryDelay)); attempt++
R_InfoDelay ==
    /\ r_op = "getAssetInfo" /\ r_pc = "delay"
    /\ r_pc' = "fetch"
    /\ r_attempt' = r_attempt + 1
    /\ r_waited' = r_waited + infoRetryDelay
    /\ UNCHANGED <<r_op, r_err, r_calls, r_result>>
    /\ UNCHANGED <<createVars, verifyVars, migVars, extVars, rollbackVars, factoryVars, appVars>>

\* getAssetTransactions: lookupAssetTransactions(assetId).limit(100).do()
R_Transactions ==
    /\ r_op = "getAssetTransactions" /\ r_pc = "await"
    /\ \/ \E v \in Lists : ReadSettles(ReadReturns(v), NoReadErr)
       \/ \E e \in ReadErrs :
             IF TransactionsRethrows(e)
                THEN ReadSettles(ReadThrows(UnableToConnect), e)
                ELSE ReadSettles(ReadReturns("empty"), e)
    /\ UNCHANGED <<createVars, verifyVars, migVars, extVars, rollbackVars, factoryVars, appVars,
                   r_waited>>

-----------------------------------------------------------------------------
(* The title asset on the ledger, as the indexer reports it *)

MaxHistory == 3             \* transactions of the asset, creation included
MaxRound == 3               \* rounds in which the asset's transactions confirm

Creator == "CONTRACT"
Holders == {"A", "B"}
SearchedAsset == 7

Name_Valid == <<"L", "R", "/", "2", "0", "2", "4", "/", "0", "0", "1">>
Name_Short == <<"L", "R", "/", "2", "0", "2", "4", "/", "7">>
Name_ABC == <<"A", "B", "C", "1", "2", "3">>
Name_NoNumber == <<"L", "R", "/", "2", "0", "2", "4", "/">>
Name_Trailing == <<"L", "R", "/", "2", "0", "2", "4", "/", "0", "0", "1", "x">>
Name_Undefined == <<>>      \* params.name undefined: the code tests name || ''
AssetNames == {Name_Valid, Name_Short, Name_ABC, Name_NoNumber, Name_Trailing,
               Name_Undefined}
AssetUrls == {"undefined", "", "ipfs://QmA", "QmA"}
AssetDecimals == {0, 2}
AssetTotals == {1, 10}
UnitNames == {"ARDHI", "undefined", "XYZ"}

Digits == {"0", "1", "2", "3", "4", "5", "6", "7", "8", "9"}

\* /^LR\/\d{4}\/\d+$/.test(name)
MatchesLandId(name) ==
    /\ Len(name) >= 9
    /\ name[1] = "L" /\ name[2] = "R" /\ name[3] = "/"
    /\ \A k \in 4..7 : name[k] \in Digits
    /\ name[8] = "/"
    /\ \A k \in 9..Len(name) : name[k] \in Digits

\* url?.startsWith('ipfs://') || url?.length > 0
UrlLength(url) == IF url = "ipfs://QmA" THEN 10 ELSE IF url = "QmA" THEN 3 ELSE 0
StartsWithIpfs(url) == url = "ipfs://QmA"
HasUrl(url) == url # "undefined" /\ (StartsWithIpfs(url) \/ UrlLength(url) > 0)

\* the unit-name conjunct of isLandTitle
UnitNameOk(unit) == unit = "ARDHI" \/ unit = "undefined"

\* const isLandTitle = ( ... )
isLandTitle(a) ==
    /\ MatchesLandId(a.name)
    /\ HasUrl(a.url)
    /\ a.decimals = 0
    /\ a.total = 1
    /\ UnitNameOk(a.unitName)

\* const issues = []; one push per failing check, in the order of the code
issues(a) ==
    (IF ~MatchesLandId(a.name) THEN <<"landId">> ELSE <<>>)
    \o (IF a.url = "undefined" \/ UrlLength(a.url) = 0 THEN <<"url">> ELSE <<>>)
    \o (IF a.decimals # 0 THEN <<"decimals">> ELSE <<>>)
    \o (IF a.total # 1 THEN <<"total">> ELSE <<>>)

\* transferTxns = transactions.filter(tx => tx['tx-type'] === 'axfer' && asset-id matches)
RECURSIVE FilterTransfers(_)
FilterTransfers(txns) ==
    IF txns = <<>> THEN <<>>
    ELSE IF Head(txns).type = "axfer" /\ Head(txns).asset = SearchedAsset
         THEN <<Head(txns)>> \o FilterTransfers(Tail(txns))
         ELSE FilterTransfers(Tail(txns))

\* insertion of tx into a list sorted by confirmed-round descending, after its equals
RECURSIVE InsertDesc(_, _)
InsertDesc(tx, sorted) ==
    IF sorted = <<>> THEN <<tx>>
    ELSE IF Head(sorted).round >= tx.round
         THEN <<Head(sorted)>> \o InsertDesc(tx, Tail(sorted))
         ELSE <<tx>> \o sorted

\* the sort left out: the transfers stay in the order returned
SortDesc_Unsorted(txns) == txns

\* transferTxns.sort((a, b) => b['confirmed-round'] - a['confirmed-round']): stable
RECURSIVE SortDesc(_)
SortDesc(txns) ==
    IF txns = <<>> THEN <<>>
    ELSE InsertDesc(txns[Len(txns)], SortDesc(SubSeq(txns, 1, Len(txns) - 1)))

\* owner resolution of handleSearch on the transactions returned
ResolveOwner(creator, txns) ==
    LET transferTxns == SortDesc(FilterTransfers(txns))
    IN  IF Len(transferTxns) > 0 THEN transferTxns[1].receiver ELSE creator

\* the orders in which the indexer may return a history
ReturnOrders(seq) ==
    {[i \in 1..Len(seq) |-> seq[f[i]]] :
        f \in {g \in [1..Len(seq) -> 1..Len(seq)] :
                  \A i, j \in 1..Len(seq) : i # j => g[i] # g[j]}}

CreationTx == [type |-> "acfg", asset |-> SearchedAsset, round |-> 1,
               sender |-> Creator, receiver |-> "", amount |-> 0, seq |-> 1]

NoRecord == [assetId |-> 0, currentOwner |-> "", metadata |-> "null", transactions |-> <<>>]
NoError == [kind |-> "", issues |-> <<>>]

InitTitle ==
    /\ asset \in [name : AssetNames, url : AssetUrls, decimals : AssetDecimals,
                  total : AssetTotals, unitName : UnitNames, creator : {Creator}]
    /\ holder = Creator
    /\ optedIn = {Creator}
    /\ history = <<CreationTx>>
    /\ round = 1

InitSearch ==
    /\ v_pc = "idle"
    /\ v_txns = <<>>
    /\ v_owner = ""
    /\ v_meta = "null"
    /\ v_result = NoRecord
    /\ v_error = NoError
    /\ v_loading = FALSE
    /\ v_known = TRUE
    /\ v_info = NoReadErr
    /\ v_gw = "none"
    /\ v_seen = FALSE

\* a prospective receiver opts in: a zero-amount transfer to itself
L_OptIn ==
    /\ Len(history) < MaxHistory
    /\ \E a \in Holders \ optedIn, r \in {round, round + 1} :
       /\ r <= MaxRound
       /\ round' = r
       /\ optedIn' = optedIn \cup {a}
       /\ history' = Append(history, [type |-> "axfer", asset |-> SearchedAsset,
                                      round |-> r, sender |-> a, receiver |-> a,
                                      amount |-> 0, seq |-> Len(history) + 1])
    /\ UNCHANGED <<asset, holder, searchVars>>
    /\ UNCHANGED <<createVars, migVars, restVars>>

\* the holder transfers the one unit to an opted-in address
L_Transfer ==
    /\ Len(history) < MaxHistory
    /\ \E to \in optedIn \ {holder}, r \in {round, round + 1} :
       /\ r <= MaxRound
       /\ round' = r
       /\ holder' = to
       /\ history' = Append(history, [type |-> "axfer", asset |-> SearchedAsset,
                                      round |-> r, sender |-> holder, receiver |-> to,
                                      amount |-> 1, seq |-> Len(history) + 1])
    /\ UNCHANGED <<asset, optedIn, searchVars>>
    /\ UNCHANGED <<createVars, migVars, restVars>>

-----------------------------------------------------------------------------
(* PublicVerification.handleSearch *)

\* form submitted with a non-empty asset id
V_Search ==
    /\ v_pc \in {"idle", "done"}
    /\ v_loading' = TRUE
    /\ v_error' = NoError
    /\ v_result' = NoRecord
    /\ v_txns' = <<>>
    /\ v_owner' = ""
    /\ v_meta' = "null"
    /\ v_pc' = "info"
    /\ v_known' \in BOOLEAN
    /\ v_info' = NoReadErr
    /\ v_gw' = "none"
    /\ v_seen' = (v_result # NoRecord)
    /\ UNCHANGED titleVars
    /\ UNCHANGED <<createVars, migVars, restVars>>

\* what one attempt of getAssetInfo can catch: the indexer's 404 for an
\* identifier it does not know, or a failure to get an answer at all
InfoErrs(known) ==
    {e \in ReadErrs : e.id \in {"500", "fetch"} \/ (~known /\ e.id = "404asset")}
        \cup {[isError |-> TRUE, name |-> "TypeError", id |-> "netlost", has |-> {"network"}]}

\* what the attempts of one getAssetInfo call get: NoReadErr = the asset
InfoAnswers(known) ==
    [1..infoMaxRetries -> InfoErrs(known) \cup (IF known THEN {NoReadErr} ELSE {})]

\* getAssetInfo, the loop from attempt on: the asset is returned by the first
\* attempt that gets it, and the error of attempt maxRetries is thrown
RECURSIVE InfoLoop(_, _)
InfoLoop(answers, attempt) ==
    IF answers[attempt] = NoReadErr THEN ReadReturns("asset")
    ELSE IF attempt = infoMaxRetries THEN ReadThrows(answers[attempt])
    ELSE InfoLoop(answers, attempt + 1)

\* a catch that reports every error as a failed verification
SearchCatch_Generic(e) == "failedToVerify"

\* catch (error) of handleSearch: the error state chosen from the message
SearchCatch(e) ==
    IF ~e.isError THEN "failedGeneric"
    ELSE IF "status 404" \in e.has THEN "notFound404"
    ELSE IF "network" \in e.has THEN "network"
    ELSE "failedToVerify"

\* await getAssetInfo; not-found branch; structural validation
V_AssetInfo ==
    /\ v_pc = "info"
    /\ \E answers \in InfoAnswers(v_known) :
         LET got == InfoLoop(answers, 1)
         IN  IF got.kind = "return"
                THEN /\ v_info' = NoReadErr
                     /\ IF ~isLandTitle(asset)
                           THEN /\ v_error' = [kind |-> "invalidTitle", issues |-> issues(asset)]
                                /\ v_loading' = FALSE
                                /\ v_pc' = "done"
                                /\ UNCHANGED v_owner
                           ELSE /\ v_owner' = asset.creator
                                /\ v_pc' = "txns1"
                                /\ UNCHANGED <<v_error, v_loading>>
                ELSE \* getAssetInfo threw: catch (error), finally
                     /\ v_info' = got.err
                     /\ v_error' = [kind |-> SearchCatch(got.err), issues |-> <<>>]
                     /\ v_loading' = FALSE
                     /\ v_pc' = "done"
                     /\ UNCHANGED v_owner
    /\ UNCHANGED <<titleVars, v_txns, v_meta, v_result, v_known, v_gw>>
    /\ UNCHANGED v_seen
    /\ UNCHANGED <<createVars, migVars, restVars>>

\* await getAssetTransactions (first read); owner resolution
V_ResolveOwner ==
    /\ v_pc = "txns1"
    /\ \/ \E returned \in ReturnOrders(history) \cup {<<>>} :
          /\ v_txns' = returned
          /\ v_owner' = ResolveOwner(v_owner, returned)
       \/ \* getAssetTransactions threw: catch (ownerError), creator kept
          UNCHANGED <<v_txns, v_owner>>
    /\ v_pc' = "meta"
    /\ UNCHANGED <<titleVars, v_meta, v_result, v_error, v_loading, v_known, v_info, v_gw>>
    /\ UNCHANGED v_seen
    /\ UNCHANGED <<createVars, migVars, restVars>>

\* what the gateway can do with the metadata request: answer with a JSON
\* document, answer 200 with a body that is not JSON, or fail (404, timeout)
GatewayAnswers == {"json", "unparsable", "failed"}

\* IPFSService.fetchJSON: axios.get(url) then response.data; axios leaves a body
\* it cannot parse as the text it received, and rejects when no 2xx answer came
FetchJSON(answer) ==
    IF answer = "json" THEN [kind |-> "return", data |-> "doc"]
    ELSE IF answer = "unparsable" THEN [kind |-> "return", data |-> "text"]
    ELSE [kind |-> "throw", data |-> ""]

\* await IPFSService.fetchJSON(cid), failure caught: metadata stays null
V_Metadata ==
    /\ v_pc = "meta"
    /\ \E answer \in GatewayAnswers :
          /\ v_gw' = answer
          /\ v_meta' = IF FetchJSON(answer).kind = "return"
                           THEN FetchJSON(answer).data ELSE "null"
    /\ v_pc' = "txns2"
    /\ UNCHANGED <<titleVars, v_txns, v_owner, v_result, v_error, v_loading, v_known, v_info>>
    /\ UNCHANGED v_seen
    /\ UNCHANGED <<createVars, migVars, restVars>>

\* await getAssetTransactions (second read); setResult; finally
V_Assemble ==
    /\ v_pc = "txns2"
    /\ \/ \E returned \in ReturnOrders(history) \cup {<<>>} :
          /\ v_result' = [assetId |-> SearchedAsset, currentOwner |-> v_owner,
                          metadata |-> v_meta, transactions |-> returned]
          /\ UNCHANGED v_error
       \/ /\ v_error' = [kind |-> SearchCatch(UnableToConnect), issues |-> <<>>]
          /\ UNCHANGED v_result
    /\ v_loading' = FALSE
    /\ v_pc' = "done"
    /\ UNCHANGED <<titleVars, v_txns, v_owner, v_meta, v_known, v_info, v_gw>>
    /\ UNCHANGED v_seen
    /\ UNCHANGED <<createVars, migVars, restVars>>

-----------------------------------------------------------------------------
(* Storage content and ContentMigrator *)

MaxCids == 2                \* length of the identifier list given to migrateAllContent
MaxPairs == 2               \* size of the mapping given to validateMigration
MaxOps == 2                 \* operations started on one migrator

Cids == {"c1", "c2"}
NewCids == {"n1", "n2"}
Missing == [type |-> "missing", keys |-> <<>>]
JsonAB == [type |-> "json", keys |-> <<"a", "b">>]
JsonBA == [type |-> "json", keys |-> <<"b", "a">>]
BadJson == [type |-> "badjson", keys |-> <<>>]
FileBlob == [type |-> "file", keys |-> <<"blob">>]
Contents == {JsonAB, JsonBA, BadJson, FileBlob}

\* JSON.stringify(response.data): an object serialises its keys in their order,
\* any other body is serialised as one quoted string
Stringify(c) ==
    IF c.type = "json"
        THEN <<"{">> \o c.keys \o <<"}">>
        ELSE <<"\"">> \o <<c.type>> \o c.keys \o <<"\"">>

NoMigResult == [success |-> FALSE, originalCid |-> "", newCid |-> "", error |-> ""]
NoReport == [totalItems |-> 0, successCount |-> 0, failureCount |-> 0,
             results |-> <<>>, ended |-> FALSE]
NoValidation == [totalValidated |-> 0, validCount |-> 0, invalidCount |-> 0,
                 errors |-> <<>>, ended |-> FALSE]

InitStores ==
    /\ srcStore \in [Cids -> Contents \cup {Missing}]
    /\ tgtStore = [n \in NewCids |-> Missing]

NoCopy == [held |-> FALSE, alias |-> FALSE, map |-> [c \in Cids |-> ""]]

InitMigrator ==
    /\ cidMappings = [c \in Cids |-> ""]
    /\ m_lastOk = [c \in Cids |-> ""]
    /\ m_copy = NoCopy
    /\ m_edits = 0
    /\ m_op = "idle"
    /\ m_ops = 0
    /\ m_cids = <<>>
    /\ m_i = 0
    /\ m_report = NoReport
    /\ m_threw = FALSE
    /\ ms_pc = "none"
    /\ ms_cid = ""
    /\ ms_data = Missing
    /\ ms_result = NoMigResult
    /\ ms_uploaded = ""
    /\ val_pairs = <<>>
    /\ val_report = NoValidation
    /\ val_seen = <<>>
    /\ m_waited = 0

\* a result that reports the source identifier as the new one
MigSuccess_SourceCid(cid, newCid) ==
    [success |-> TRUE, originalCid |-> cid, newCid |-> cid, error |-> ""]

\* return { success: true, originalCid: cid, newCid }
MigSuccess(cid, newCid) ==
    [success |-> TRUE, originalCid |-> cid, newCid |-> newCid, error |-> ""]

\* catch (error) of migrateSingleAsset: the result it resolves to
MigFailure(cid, why) ==
    [success |-> FALSE, originalCid |-> cid, newCid |-> "", error |-> why]

\* the upload left outside the try block
SingleAssetLeaks_Upload(why) == why = "upload"

\* TRUE when an exception inside migrateSingleAsset escapes its try/catch, which
\* encloses the whole body
SingleAssetLeaks(why) == FALSE

\* an exception inside migrateSingleAsset
MS_Fail(why) ==
    IF SingleAssetLeaks(why)
        THEN /\ ms_pc' = "threw"
             /\ ms_result' = NoMigResult
        ELSE /\ ms_pc' = "resolved"
             /\ ms_result' = MigFailure(ms_cid, why)

\* migrateSingleAsset(cid) called by the operator
MS_Call ==
    /\ m_op = "idle"
    /\ m_ops < MaxOps
    /\ \E cid \in Cids :
       /\ ms_cid' = cid
       /\ ms_pc' = "fetch"
    /\ m_op' = "single"
    /\ m_ops' = m_ops + 1
    /\ m_threw' = FALSE
    /\ ms_result' = NoMigResult
    /\ ms_data' = Missing
    /\ ms_uploaded' = ""
    /\ m_cids' = <<>> /\ m_i' = 0 /\ m_report' = NoReport
    /\ val_pairs' = <<>> /\ val_report' = NoValidation /\ val_seen' = <<>>
    /\ UNCHANGED <<storeVars, cidMappings>>
    /\ UNCHANGED <<createVars, verifyVars, restVars, m_waited>>
    /\ UNCHANGED migAux

\* axios.get(sourceUrl, blob); content type; response.data.text(); JSON.parse
MS_Fetch ==
    /\ ms_pc = "fetch"
    /\ \/ /\ srcStore[ms_cid].type \in {"json", "file"}
          /\ ms_data' = srcStore[ms_cid]
          /\ ms_pc' = "upload"
          /\ UNCHANGED ms_result
       \/ /\ srcStore[ms_cid].type = "badjson"
          /\ MS_Fail("parse")
          /\ UNCHANGED ms_data
       \/ /\ MS_Fail("fetch")               \* 404, timeout, network
          /\ UNCHANGED ms_data
    /\ UNCHANGED <<storeVars, cidMappings, m_op, m_ops, m_cids, m_i, m_report, m_threw,
                   ms_cid, ms_uploaded, val_pairs, val_report, val_seen>>
    /\ UNCHANGED <<createVars, verifyVars, restVars, m_waited>>
    /\ UNCHANGED migAux

\* targetProvider.uploadJSON(parsedData) / uploadFile(file)
MS_Upload ==
    /\ ms_pc = "upload"
    /\ \/ \E n \in NewCids :
          /\ tgtStore[n] \in {Missing, ms_data}
          /\ tgtStore' = [tgtStore EXCEPT ![n] = ms_data]
          /\ ms_uploaded' = n
          /\ ms_result' = MigSuccess(ms_cid, n)
          /\ ms_pc' = "resolved"
       \/ /\ MS_Fail("upload")
          /\ UNCHANGED <<tgtStore, ms_uploaded>>
    /\ UNCHANGED <<srcStore, cidMappings, m_op, m_ops, m_cids, m_i, m_report, m_threw,
                   ms_cid, ms_data, val_pairs, val_report, val_seen>>
    /\ UNCHANGED <<createVars, verifyVars, restVars, m_waited>>
    /\ UNCHANGED migAux

\* the operator's direct call settles
MS_Return ==
    /\ m_op = "single"
    /\ ms_pc \in {"resolved", "threw"}
    /\ m_threw' = (ms_pc = "threw")
    /\ ms_pc' = "none"
    /\ m_op' = "idle"
    /\ UNCHANGED <<storeVars, cidMappings, m_ops, m_cids, m_i, m_report,
                   ms_cid, ms_data, ms_result, ms_uploaded, val_pairs, val_report,
                   val_seen>>
    /\ UNCHANGED <<createVars, verifyVars, restVars, m_waited>>
    /\ UNCHANGED migAux

CidLists == UNION {[1..n -> Cids] : n \in 0..MaxCids}

\* migrateAllContent(cids): the report is initialised
MA_Call ==
    /\ m_op = "idle"
    /\ m_ops < MaxOps
    /\ \E cids \in CidLists :
       /\ m_cids' = cids
       /\ m_report' = [totalItems |-> Len(cids), successCount |-> 0,
                       failureCount |-> 0, results |-> <<>>, ended |-> FALSE]
    /\ m_op' = "migrateAll"
    /\ m_ops' = m_ops + 1
    /\ m_i' = 1
    /\ m_threw' = FALSE
    /\ ms_cid' = "" /\ ms_data' = Missing /\ ms_result' = NoMigResult
    /\ ms_uploaded' = ""
    /\ val_pairs' = <<>> /\ val_report' = NoValidation /\ val_seen' = <<>>
    /\ UNCHANGED <<storeVars, cidMappings, ms_pc>>
    /\ m_waited' = 0
    /\ UNCHANGED <<createVars, verifyVars, restVars>>
    /\ UNCHANGED migAux

\* for (const cid of cids): await this.migrateSingleAsset(cid)
MA_Item ==
    /\ m_op = "migrateAll"
    /\ ms_pc = "none"
    /\ m_i <= Len(m_cids)
    /\ ms_cid' = m_cids[m_i]
    /\ ms_pc' = "fetch"
    /\ ms_result' = NoMigResult
    /\ ms_data' = Missing
    /\ ms_uploaded' = ""
    /\ UNCHANGED <<storeVars, cidMappings, m_op, m_ops, m_cids, m_i, m_report, m_threw,
                   val_pairs, val_report, val_seen>>
    /\ UNCHANGED <<createVars, verifyVars, restVars, m_waited>>
    /\ UNCHANGED migAux

\* a report that drops the items that failed
Counted_SkipFailures(report, res) ==
    IF res.success
        THEN [report EXCEPT !.results = Append(@, res), !.successCount = @ + 1]
        ELSE report

\* report.results.push(result); successCount++ or failureCount++
Counted(report, res) ==
    [report EXCEPT !.results = Append(@, res),
                   !.successCount = IF res.success THEN @ + 1 ELSE @,
                   !.failureCount = IF res.success THEN @ ELSE @ + 1]

\* a mapping that keeps the first identifier recorded for an original
Recorded_KeepFirst(map, res) ==
    IF res.success /\ map[res.originalCid] = ""
        THEN [map EXCEPT ![res.originalCid] = res.newCid]
        ELSE map

\* if (result.success) this.cidMappings.set(result.originalCid, result.newCid)
Recorded(map, res) ==
    IF res.success
        THEN [map EXCEPT ![res.originalCid] = res.newCid]
        ELSE map

\* the loop body after migrateSingleAsset settled, or the catch of the loop body
MA_Record ==
    /\ m_op = "migrateAll"
    /\ ms_pc \in {"resolved", "threw"}
    /\ IF ms_pc = "threw"
          THEN /\ m_report' = Counted(m_report, MigFailure(m_cids[m_i], "thrown"))
               /\ UNCHANGED cidMappings
               /\ ms_pc' = "none"           \* no delay on this path
               /\ m_i' = m_i + 1
          ELSE /\ m_report' = Counted(m_report, ms_result)
               /\ cidMappings' = Recorded(cidMappings, ms_result)
               /\ ms_pc' = "delay"
               /\ UNCHANGED m_i
    /\ m_lastOk' = IF ms_pc = "resolved" /\ ms_result.success
                      THEN [m_lastOk EXCEPT ![m_cids[m_i]] = ms_result.newCid]
                      ELSE m_lastOk
    /\ UNCHANGED <<storeVars, m_op, m_ops, m_cids, m_threw, ms_cid, ms_data, ms_result,
                   ms_uploaded, val_pairs, val_report, val_seen>>
    /\ UNCHANGED <<createVars, verifyVars, restVars, m_waited, m_copy, m_edits>>

\* this.delay(100): the argument of the loop's delay
delayMs == 100

MaxCopyEdits == 1           \* changes a caller makes to a Map it was handed

\* a getter that hands out the private Map itself
getCidMappings_Alias(map) == [held |-> TRUE, alias |-> TRUE, map |-> map]

\* getCidMappings(): return new Map(this.cidMappings)
getCidMappings(map) == [held |-> TRUE, alias |-> FALSE, map |-> map]

\* a caller asks for the mappings between two operations
MG_GetCidMappings ==
    /\ m_op = "idle" /\ m_ops > 0
    /\ m_copy' = getCidMappings(cidMappings)
    /\ m_copy' # m_copy
    /\ UNCHANGED <<storeVars, migratorVars, m_waited, m_lastOk, m_edits>>
    /\ UNCHANGED <<createVars, verifyVars, restVars>>

\* the caller sets or deletes an entry of the Map it holds
MG_EditCopy ==
    /\ m_copy.held /\ m_edits < MaxCopyEdits
    /\ m_edits' = m_edits + 1
    /\ \E c \in Cids, v \in NewCids \cup {""} :
          /\ v # m_copy.map[c]
          /\ m_copy' = [m_copy EXCEPT !.map[c] = v]
          /\ cidMappings' = IF m_copy.alias THEN m_copy'.map ELSE cidMappings
    /\ UNCHANGED <<storeVars, m_op, m_ops, m_cids, m_i, m_report, m_threw,
                   ms_pc, ms_cid, ms_data, ms_result, ms_uploaded,
                   val_pairs, val_report, val_seen, m_waited, m_lastOk>>
    /\ UNCHANGED <<createVars, verifyVars, restVars>>

\* await this.delay(100)
MA_Delay ==
    /\ m_op = "migrateAll"
    /\ ms_pc = "delay"
    /\ ms_pc' = "none"
    /\ m_i' = m_i + 1
    /\ UNCHANGED <<storeVars, cidMappings, m_op, m_ops, m_cids, m_report, m_threw,
                   ms_cid, ms_data, ms_result, ms_uploaded, val_pairs, val_report,
                   val_seen>>
    /\ m_waited' = m_waited + delayMs
    /\ UNCHANGED <<createVars, verifyVars, restVars>>
    /\ UNCHANGED migAux

\* after the loop: endTime, duration, return report
MA_Return ==
    /\ m_op = "migrateAll"
    /\ ms_pc = "none"
    /\ m_i > Len(m_cids)
    /\ m_report' = [m_report EXCEPT !.ended = TRUE]
    /\ m_op' = "idle"
    /\ UNCHANGED <<storeVars, cidMappings, m_ops, m_cids, m_i, m_threw,
                   ms_pc, ms_cid, ms_data, ms_result, ms_uploaded, val_pairs, val_report,
                   val_seen>>
    /\ UNCHANGED <<createVars, verifyVars, restVars, m_waited>>
    /\ UNCHANGED migAux

\* the Maps validateMigration can be given: distinct keys, in insertion order
PairLists ==
    {ps \in UNION {[1..n -> Cids \X NewCids] : n \in 0..MaxPairs} :
        \A i, j \in 1..Len(ps) : i # j => ps[i][1] # ps[j][1]}

\* validateMigration(cidMappings): the report is initialised
VA_Call ==
    /\ m_op = "idle"
    /\ m_ops < MaxOps
    /\ \E ps \in PairLists :
       /\ val_pairs' = ps
       /\ val_report' = [totalValidated |-> Len(ps), validCount |-> 0,
                         invalidCount |-> 0, errors |-> <<>>, ended |-> FALSE]
    /\ val_seen' = <<>>
    /\ m_op' = "validate"
    /\ m_ops' = m_ops + 1
    /\ m_i' = 1
    /\ m_threw' = FALSE
    /\ ms_cid' = "" /\ ms_data' = Missing /\ ms_result' = NoMigResult
    /\ ms_uploaded' = ""
    /\ m_cids' = <<>> /\ m_report' = NoReport
    /\ UNCHANGED <<storeVars, cidMappings, ms_pc>>
    /\ UNCHANGED <<createVars, verifyVars, restVars, m_waited>>
    /\ UNCHANGED migAux

\* a verdict that only asks whether both fetches answered
PairIsValid_AnyContent(fetchedA, fetchedB, a, b) == fetchedA /\ fetchedB

\* the verdict of one loop iteration on what the two GETs delivered
PairIsValid(fetchedA, fetchedB, a, b) ==
    fetchedA /\ fetchedB /\ Stringify(a) = Stringify(b)

\* one iteration of  for (const [originalCid, newCid] of cidMappings)
VA_Pair ==
    /\ m_op = "validate"
    /\ m_i <= Len(val_pairs)
    /\ LET originalCid == val_pairs[m_i][1]
           newCid == val_pairs[m_i][2]
       IN \E okA \in {TRUE, srcStore[originalCid] = Missing},
             okB \in {TRUE, tgtStore[newCid] = Missing} :
          LET fetchedA == okA /\ srcStore[originalCid] # Missing
              fetchedB == okB /\ tgtStore[newCid] # Missing
          IN /\ val_seen' = Append(val_seen,
                    [fetchedA |-> fetchedA, fetchedB |-> fetchedB,
                     a |-> srcStore[originalCid], b |-> tgtStore[newCid]])
             /\ IF fetchedA /\ fetchedB
                   THEN IF PairIsValid(fetchedA, fetchedB, srcStore[originalCid],
                                       tgtStore[newCid])
                           THEN val_report' = [val_report EXCEPT !.validCount = @ + 1]
                           ELSE val_report' = [val_report EXCEPT
                                   !.invalidCount = @ + 1,
                                   !.errors = Append(@, <<"mismatch", originalCid, newCid>>)]
                   ELSE val_report' = [val_report EXCEPT
                           !.invalidCount = @ + 1,
                           !.errors = Append(@, <<"failed", originalCid, newCid>>)]
    /\ m_i' = m_i + 1
    /\ UNCHANGED <<storeVars, cidMappings, m_op, m_ops, m_cids, m_report, m_threw,
                   ms_pc, ms_cid, ms_data, ms_result, ms_uploaded, val_pairs>>
    /\ UNCHANGED <<createVars, verifyVars, restVars, m_waited>>
    /\ UNCHANGED migAux

\* return report
VA_Return ==
    /\ m_op = "validate"
    /\ m_i > Len(val_pairs)
    /\ val_report' = [val_report EXCEPT !.ended = TRUE]
    /\ m_op' = "idle"
    /\ UNCHANGED <<storeVars, cidMappings, m_ops, m_cids, m_i, m_report, m_threw,
                   ms_pc, ms_cid, ms_data, ms_result, ms_uploaded, val_pairs, val_seen>>
    /\ UNCHANGED <<createVars, verifyVars, restVars, m_waited>>
    /\ UNCHANGED migAux

\* a rollback that reports success
RollbackOutcome_Resolves == [kind |-> "return", msg |-> ""]

\* throw new Error('Rollback not implemented - manual intervention required')
RollbackOutcome == [kind |-> "throw", msg |-> "RollbackNotImplemented"]

NoRollback == [kind |-> "none", msg |-> ""]

InitRollback ==
    /\ rb_calls = 0
    /\ rb_result = NoRollback

\* rollbackMigration(): no await, one synchronous body; callable while another
\* operation of the migrator is suspended at an await
MR_Rollback ==
    /\ m_ops < MaxOps
    /\ m_ops' = m_ops + 1
    /\ rb_calls' = rb_calls + 1
    /\ rb_result' = RollbackOutcome
    /\ UNCHANGED <<storeVars, cidMappings, m_op, m_cids, m_i, m_report, m_threw,
                   ms_pc, ms_cid, ms_data, ms_result, ms_uploaded, val_pairs, val_report,
                   val_seen>>
    /\ UNCHANGED <<createVars, verifyVars, factoryVars, readVars, appVars, extVars, m_waited, migAux>>

-----------------------------------------------------------------------------
(* IPFSServiceFactory and the provider constructors *)

MaxFactoryCalls == 4        \* create / getInstance / resetInstance calls
MaxEnvChanges == 1          \* times the environment is re-configured

Backends == {"pinata", "nodely"}
ProviderArgs == {"", "pinata", "nodely"}          \* "" = argument left out
EnvProviders == {"", "pinata", "nodely", "web3"}  \* VITE_IPFS_PROVIDER, unchecked cast
Envs == [pinataKeys : BOOLEAN, nodelyKey : BOOLEAN, provider : EnvProviders,
         changes : 0..MaxEnvChanges]

NoInstance == [id |-> 0, backend |-> ""]
NoCall == [op |-> "none", arg |-> "", env |-> [pinataKeys |-> FALSE, nodelyKey |-> FALSE,
                                               provider |-> "", changes |-> 0],
           kind |-> "none", obj |-> NoInstance, msg |-> ""]

\* providerType || import.meta.env.VITE_IPFS_PROVIDER || 'pinata'
EffectiveProvider(arg, env) ==
    IF arg # "" THEN arg ELSE IF env.provider # "" THEN env.provider ELSE "pinata"

\* the switch: case 'nodely' -> Nodely; case 'pinata', default -> Pinata
Selected(provider) == IF provider = "nodely" THEN "nodely" ELSE "pinata"

\* a fallback that tries the same backend again
Fallback_SameBackend(provider) == Selected(provider)

\* the catch: provider === 'nodely' -> Pinata, else -> Nodely
Fallback(provider) == IF provider = "nodely" THEN "pinata" ELSE "nodely"

\* new NodelyProvider() / new PinataProvider(): the credential checks
Construct(backend, env) ==
    IF backend = "nodely"
        THEN IF env.nodelyKey
                THEN [kind |-> "return", backend |-> "nodely", msg |-> ""]
                ELSE [kind |-> "throw", backend |-> "", msg |-> "NodelyKeyNotConfigured"]
        ELSE IF env.pinataKeys
                THEN [kind |-> "return", backend |-> "pinata", msg |-> ""]
                ELSE [kind |-> "throw", backend |-> "", msg |-> "PinataCredentialsNotConfigured"]

\* IPFSServiceFactory.create(providerType)
Create(arg, env) ==
    LET provider == EffectiveProvider(arg, env)
        first == Construct(Selected(provider), env)
    IN  IF first.kind = "return" THEN first
        ELSE Construct(Fallback(provider), env)

\* a cache test that never finds the instance
CacheHit_Never(inst) == FALSE

\* if (!this.instance)
CacheHit(inst) == inst # NoInstance

Settled(op, arg, env, made, obj) ==
    [op |-> op, arg |-> arg, env |-> env, kind |-> made.kind, obj |-> obj, msg |-> made.msg]

InitFactory ==
    /\ f_env \in {e \in Envs : e.changes = 0}
    /\ instance = NoInstance
    /\ f_made = 0
    /\ f_calls = 0
    /\ f_ret = NoCall
    /\ f_epoch = {}
    /\ f_old = {}

\* a direct call of create (ContentMigrator's constructor, scripts)
F_Create ==
    /\ f_calls < MaxFactoryCalls
    /\ f_calls' = f_calls + 1
    /\ \E arg \in ProviderArgs :
         LET made == Create(arg, f_env)
             obj == IF made.kind = "return"
                       THEN [id |-> f_made + 1, backend |-> made.backend]
                       ELSE NoInstance
         IN /\ f_ret' = Settled("create", arg, f_env, made, obj)
            /\ f_made' = IF made.kind = "return" THEN f_made + 1 ELSE f_made
    /\ UNCHANGED <<f_env, instance, f_epoch, f_old>>
    /\ UNCHANGED <<createVars, verifyVars, migVars, extVars, rollbackVars, readVars, appVars>>

\* getInstance(providerType); the facade IPFSService calls it with no argument
F_GetInstance ==
    /\ f_calls < MaxFactoryCalls
    /\ f_calls' = f_calls + 1
    /\ \E arg \in ProviderArgs :
         IF CacheHit(instance)
            THEN /\ f_ret' = [op |-> "getInstance", arg |-> arg, env |-> f_env,
                              kind |-> "return", obj |-> instance, msg |-> ""]
                 /\ f_epoch' = f_epoch \cup {instance.id}
                 /\ UNCHANGED <<instance, f_made>>
            ELSE LET made == Create(arg, f_env)
                     obj == IF made.kind = "return"
                               THEN [id |-> f_made + 1, backend |-> made.backend]
                               ELSE NoInstance
                 IN /\ f_ret' = Settled("getInstance", arg, f_env, made, obj)
                    /\ f_made' = IF made.kind = "return" THEN f_made + 1 ELSE f_made
                    \* the assignment happens only when create returned
                    /\ instance' = IF made.kind = "return" THEN obj ELSE instance
                    /\ f_epoch' = IF made.kind = "return"
                                     THEN f_epoch \cup {obj.id} ELSE f_epoch
    /\ UNCHANGED <<f_env, f_old>>
    /\ UNCHANGED <<createVars, verifyVars, migVars, extVars, rollbackVars, readVars, appVars>>

\* resetInstance()
F_ResetInstance ==
    /\ f_calls < MaxFactoryCalls
    /\ f_calls' = f_calls + 1
    /\ instance' = NoInstance
    /\ f_ret' = [NoCall EXCEPT !.op = "resetInstance", !.env = f_env, !.kind = "return"]
    /\ f_old' = f_old \cup f_epoch
    /\ f_epoch' = {}
    /\ UNCHANGED <<f_env, f_made>>
    /\ UNCHANGED <<createVars, verifyVars, migVars, extVars, rollbackVars, readVars, appVars>>

\* the environment is configured differently (credentials added or removed)
F_Configure ==
    /\ f_env.changes < MaxEnvChanges
    /\ \E e \in Envs : /\ e.changes = f_env.changes + 1
                       /\ f_env' = e
    /\ UNCHANGED <<instance, f_made, f_calls, f_ret, f_epoch, f_old>>
    /\ UNCHANGED <<createVars, verifyVars, migVars, extVars, rollbackVars, readVars, appVars>>

-----------------------------------------------------------------------------
(* AppProvider: wallet session *)

MaxSessionOps == 4          \* connectWallet / disconnectWallet calls and wallet signals

Null == "null"
Undefined == "undefined"
AccountLists == {<<>>, <<"ADMIN">>, <<"OTHER">>, <<"OTHER", "ADMIN">>}
AdminAddresses == {"ADMIN", Undefined}

NoEvent == [n |-> 0, src |-> "none", accounts |-> <<>>, rejected |-> FALSE]
Event(src, accs, rej) ==
    [n |-> s_last.n + 1, src |-> src, accounts |-> accs, rejected |-> rej]

\* the last identity of the list instead of the first
PickAccount_Last(accounts) == accounts[Len(accounts)]

\* accounts[0]
PickAccount(accounts) == accounts[1]

\* a disconnect that clears the connected flag and keeps the identity
LocalAfterDisconnect_KeepsAccount(acct, conn) == [account |-> acct, connected |-> FALSE]

\* a disconnect that leaves the local state for the teardown to clear
LocalAfterDisconnect_Unchanged(acct, conn) == [account |-> acct, connected |-> conn]

\* setAccount(null); setIsConnected(false)
LocalAfterDisconnect(acct, conn) == [account |-> Null, connected |-> FALSE]

\* const isAdmin = account === adminAddress
isAdmin == s_account = s_admin

\* what connect() can reject with, as the text connectWallet derives from it
ConnectRejections == {"ModalClosedByUser", "NotAnError"}
\* errorMessage: error.message for an Error, else 'Failed to connect to wallet'
ConnectErrorText(rej) == IF rej = "NotAnError" THEN "FailedToConnectToWallet" ELSE rej

InitSession ==
    /\ s_account = Null
    /\ s_connected = FALSE
    /\ s_inProgress = FALSE
    /\ s_error = Null
    /\ s_admin \in AdminAddresses
    /\ s_reconnect = "notMounted"
    /\ s_connect = "idle"
    /\ s_teardown = "none"
    /\ s_ops = 0
    /\ s_last = NoEvent

InitWallet ==
    /\ w_stored \in AccountLists
    /\ w_remote = (w_stored # <<>>)
    /\ w_connector = 0
    /\ w_made = 0
    /\ w_listeners = {}

\* useEffect(..., []): reconnectSession() is called, then connector?.on('disconnect')
\* runs at once; whether the library has made its connector by then is its own
\* affair, and it has none without a persisted session
S_Mount ==
    /\ s_reconnect = "notMounted"
    /\ s_reconnect' = "pending"
    /\ \E early \in (IF w_stored # <<>> THEN BOOLEAN ELSE {FALSE}) :
          IF early
             THEN /\ w_connector' = w_made + 1
                  /\ w_made' = w_made + 1
                  /\ w_listeners' = {w_made + 1}
             ELSE UNCHANGED <<w_connector, w_made, w_listeners>>
    /\ UNCHANGED <<s_account, s_connected, s_inProgress, s_error, s_admin, s_connect,
                   s_teardown, s_ops, s_last, w_stored, w_remote>>
    /\ UNCHANGED <<createVars, verifyVars, migVars, extVars, rollbackVars, factoryVars, readVars>>

\* reconnectSession().then(accounts => ...).catch(() => {})
S_ReconnectSettles ==
    /\ s_reconnect = "pending"
    /\ s_reconnect' = "settled"
    /\ \/ \E accs \in {w_stored, <<>>} :
          /\ accs # <<>> => w_remote
          /\ s_last' = Event("reconnect", accs, FALSE)
          /\ IF Len(accs) > 0
                THEN /\ s_account' = PickAccount(accs)
                     /\ s_connected' = TRUE
                     /\ IF w_connector = 0
                           THEN /\ w_connector' = w_made + 1
                                /\ w_made' = w_made + 1
                           ELSE UNCHANGED <<w_connector, w_made>>
                ELSE UNCHANGED <<s_account, s_connected, w_connector, w_made>>
       \/ /\ s_last' = Event("reconnect", <<>>, TRUE)
          /\ UNCHANGED <<s_account, s_connected, w_connector, w_made>>
    /\ UNCHANGED <<s_inProgress, s_error, s_admin, s_connect, s_teardown, s_ops,
                   w_stored, w_remote, w_listeners>>
    /\ UNCHANGED <<createVars, verifyVars, migVars, extVars, rollbackVars, factoryVars, readVars>>

\* connectWallet up to  await peraWallet.connect(); the button is shown while not
\* connected and disabled while a connection is in progress
S_Connect ==
    /\ s_reconnect # "notMounted"
    /\ ~s_connected /\ ~s_inProgress /\ s_connect = "idle"
    /\ s_ops < MaxSessionOps
    /\ s_ops' = s_ops + 1
    /\ s_inProgress' = TRUE
    /\ s_error' = Null
    /\ s_connect' = "pending"
    /\ UNCHANGED <<s_account, s_connected, s_admin, s_reconnect, s_teardown, s_last,
                   walletVars>>
    /\ UNCHANGED <<createVars, verifyVars, migVars, extVars, rollbackVars, factoryVars, readVars>>

\* connectWallet after the await: the if / else, the catch and the finally
S_ConnectSettles ==
    /\ s_connect = "pending"
    /\ s_connect' = "idle"
    /\ s_inProgress' = FALSE
    /\ \/ \E accs \in AccountLists :
          /\ s_last' = Event("connect", accs, FALSE)
          /\ IF Len(accs) > 0
                THEN /\ s_account' = PickAccount(accs)
                     /\ s_connected' = TRUE
                     /\ UNCHANGED s_error
                     /\ w_remote' = TRUE
                     \* the library makes the connector of the new session, or
                     \* keeps the one it has
                     /\ \E fresh \in (IF w_connector = 0 THEN {TRUE} ELSE BOOLEAN) :
                           IF fresh
                              THEN /\ w_connector' = w_made + 1
                                   /\ w_made' = w_made + 1
                              ELSE UNCHANGED <<w_connector, w_made>>
                ELSE /\ s_error' = "NoAccountsReturned"
                     /\ UNCHANGED <<s_account, s_connected, w_remote, w_connector, w_made>>
       \/ \E rej \in ConnectRejections :
          /\ s_last' = Event("connect", <<>>, TRUE)
          /\ s_error' = ConnectErrorText(rej)
          /\ UNCHANGED <<s_account, s_connected, w_remote, w_connector, w_made>>
    /\ UNCHANGED <<s_admin, s_reconnect, s_teardown, s_ops, w_stored, w_listeners>>
    /\ UNCHANGED <<createVars, verifyVars, migVars, extVars, rollbackVars, factoryVars, readVars>>

\* disconnectWallet: peraWallet.disconnect() is not awaited
S_Disconnect ==
    /\ s_reconnect # "notMounted"
    /\ s_ops < MaxSessionOps
    /\ s_ops' = s_ops + 1
    /\ s_teardown' = "pending"
    /\ s_last' = Event("disconnect", <<>>, FALSE)
    /\ LET local == LocalAfterDisconnect(s_account, s_connected)
       IN /\ s_account' = local.account
          /\ s_connected' = local.connected
    /\ UNCHANGED <<s_inProgress, s_error, s_admin, s_reconnect, s_connect, walletVars>>
    /\ UNCHANGED <<createVars, verifyVars, migVars, extVars, rollbackVars, factoryVars, readVars>>

\* the promise of peraWallet.disconnect() settles, if it ever does
S_TeardownSettles ==
    /\ s_teardown = "pending"
    /\ \/ /\ s_teardown' = "ok"
          /\ w_remote' = FALSE
          /\ w_connector' = 0
       \/ /\ s_teardown' = "failed"
          /\ UNCHANGED w_remote
          /\ w_connector' \in {0, w_connector}
    /\ UNCHANGED <<s_account, s_connected, s_inProgress, s_error, s_admin, s_reconnect,
                   s_connect, s_ops, s_last, w_stored, w_made, w_listeners>>
    /\ UNCHANGED <<createVars, verifyVars, migVars, extVars, rollbackVars, factoryVars, readVars>>

\* the wallet ends the session on its side; the connector emits 'disconnect' to
\* the listeners registered on it
S_WalletSignal ==
    /\ w_remote /\ w_connector # 0
    /\ s_ops < MaxSessionOps
    /\ s_ops' = s_ops + 1
    /\ w_remote' = FALSE
    /\ s_last' = Event("signal", <<>>, FALSE)
    /\ IF w_connector \in w_listeners
          THEN /\ s_account' = Null
               /\ s_connected' = FALSE
          ELSE UNCHANGED <<s_account, s_connected>>
    /\ UNCHANGED <<s_inProgress, s_error, s_admin, s_reconnect, s_connect, s_teardown,
                   w_stored, w_connector, w_made, w_listeners>>
    /\ UNCHANGED <<createVars, verifyVars, migVars, extVars, rollbackVars, factoryVars, readVars>>

-----------------------------------------------------------------------------
(* Provider objects: validateConnection and getFileUrl *)

MaxProviderCalls == 3       \* validateConnection / getFileUrl calls

\* VITE_IPFS_GATEWAY_URL / VITE_NODELY_GATEWAY_URL: "" = not set
GatewaySettings == {"", "https://my.gw/ipfs/"}
ProviderEnvs == [pinata : GatewaySettings, nodely : GatewaySettings,
                 changes : 0..MaxEnvChanges]

\* import.meta.env.VITE_..._GATEWAY_URL || 'https://gateway.<backend>/ipfs/'
GatewayUrl(backend, env) ==
    IF env[backend] # "" THEN <<env[backend]>>
    ELSE IF backend = "nodely" THEN <<"https://gateway.nodely.io/ipfs/">>
    ELSE <<"https://gateway.pinata.cloud/ipfs/">>

\* a join that puts a separator between base and identifier
getFileUrl_Slash(gatewayUrl, cid) == gatewayUrl \o <<"/">> \o <<cid>>

\* `${this.gatewayUrl}${cid}`
getFileUrl(gatewayUrl, cid) == gatewayUrl \o <<cid>>

\* what the authentication endpoint can do with the probe: an HTTP status, or
\* 0 when no response arrives (network error, timeout)
ProbeAnswers == {0, 200, 204, 401, 403, 500}

\* axios.get with the default validateStatus: resolves for 2xx, rejects otherwise
AxiosResolves(answer) == answer \in 200..299

\* a test that accepts every response axios resolves with
StatusOk_AnySuccess(status) == TRUE

\* response.status === 200
StatusOk(status) == status = 200

\* validateConnection: try { ...; return response.status === 200 } catch { return false }
ValidateConnection(answer) ==
    IF AxiosResolves(answer) THEN StatusOk(answer) ELSE FALSE

NoProviderCall == [n |-> 0, op |-> "none", backend |-> "", kind |-> "none",
                   value |-> <<>>, answer |-> 0]

InitProviders ==
    /\ pv_env \in {e \in ProviderEnvs : e.changes = 0}
    /\ pv_obj = [b \in Backends |-> GatewayUrl(b, pv_env)]
    /\ pv_pending = {}
    /\ pv_net = 0
    /\ pv_calls = 0
    /\ pv_last = NoProviderCall
    /\ pv_urls = {}

\* the environment is re-configured after the objects were constructed
PV_Configure ==
    /\ pv_env.changes < MaxEnvChanges
    /\ \E e \in ProviderEnvs :
          /\ e.changes = pv_env.changes + 1
          /\ <<e.pinata, e.nodely>> # <<pv_env.pinata, pv_env.nodely>>
          /\ pv_env' = e
    /\ UNCHANGED <<pv_obj, pv_pending, pv_net, pv_calls, pv_last, pv_urls>>
    /\ UNCHANGED <<createVars, verifyVars, migVars, rollbackVars, factoryVars, readVars, appVars,
                   batchVars, raceVars, writeVars, pageVars>>

\* validateConnection up to  await axios.get(...)
PV_Validate ==
    /\ pv_calls < MaxProviderCalls
    /\ \E b \in Backends \ pv_pending :
          pv_pending' = pv_pending \cup {b}
    /\ pv_net' = pv_net + 1
    /\ pv_calls' = pv_calls + 1
    /\ UNCHANGED <<pv_env, pv_obj, pv_last, pv_urls>>
    /\ UNCHANGED <<createVars, verifyVars, migVars, rollbackVars, factoryVars, readVars, appVars,
                   batchVars, raceVars, writeVars, pageVars>>

\* validateConnection after the await: the return or the catch
PV_ProbeSettles ==
    /\ \E b \in pv_pending, answer \in ProbeAnswers :
          /\ pv_pending' = pv_pending \ {b}
          /\ pv_last' = [n |-> pv_last.n + 1, op |-> "validateConnection", backend |-> b,
                         kind |-> "return", value |-> <<ValidateConnection(answer)>>,
                         answer |-> answer]
    /\ UNCHANGED <<pv_env, pv_obj, pv_net, pv_calls, pv_urls>>
    /\ UNCHANGED <<createVars, verifyVars, migVars, rollbackVars, factoryVars, readVars, appVars,
                   batchVars, raceVars, writeVars, pageVars>>

\* getFileUrl(cid): synchronous
PV_GetFileUrl ==
    /\ pv_calls < MaxProviderCalls
    /\ pv_calls' = pv_calls + 1
    /\ \E b \in Backends, cid \in Cids :
          LET url == getFileUrl(pv_obj[b], cid)
          IN  /\ pv_last' = [n |-> pv_last.n + 1, op |-> "getFileUrl", backend |-> b,
                             kind |-> "return", value |-> url, answer |-> 0]
              /\ pv_urls' = pv_urls \cup {<<b, cid, url>>}
    /\ UNCHANGED <<pv_env, pv_obj, pv_pending, pv_net>>
    /\ UNCHANGED <<createVars, verifyVars, migVars, rollbackVars, factoryVars, readVars, appVars,
                   batchVars, raceVars, writeVars, pageVars>>

-----------------------------------------------------------------------------
(* MigrationRunner.runBatchMigration *)

MaxBatchCids == 3           \* length of config.cids
MaxBatches == 4             \* iterations of the createBatches loop that are followed

defaultBatchSize == 10      \* this.config.batchSize || 10
defaultBatchDelay == 5000   \* this.config.delayBetweenBatches || 5000

\* config.batchSize and config.delayBetweenBatches: 0 stands for left out
BatchSizes == {-1, 0, 1, 2}
BatchDelays == {0, 3000}
BatchConfigs ==
    [cids : UNION {[1..n -> Cids] : n \in 0..MaxBatchCids},
     batchSize : BatchSizes, delayBetweenBatches : BatchDelays]

\* this.config.batchSize || 10
EffectiveBatchSize(config) ==
    IF config.batchSize # 0 THEN config.batchSize ELSE defaultBatchSize

\* this.config.delayBetweenBatches || 5000
EffectiveBatchDelay(config) ==
    IF config.delayBetweenBatches # 0 THEN config.delayBetweenBatches ELSE defaultBatchDelay

\* array.slice(start, end) for integer bounds: a negative bound counts from the
\* end, both are clamped to the array
SliceIndex(array, k) ==
    IF k < 0 THEN (IF Len(array) + k < 0 THEN 0 ELSE Len(array) + k)
    ELSE IF k > Len(array) THEN Len(array) ELSE k

Slice(array, start, end) ==
    SubSeq(array, SliceIndex(array, start) + 1, SliceIndex(array, end))

RECURSIVE Flatten(_)
Flatten(batches) ==
    IF batches = <<>> THEN <<>> ELSE Head(batches) \o Flatten(Tail(batches))

InitBatch ==
    /\ b_config \in BatchConfigs
    /\ b_pc = "start"
    /\ b_i = 0
    /\ b_batches = <<>>
    /\ b_k = 0
    /\ b_migrated = <<>>
    /\ b_saved = 0
    /\ b_waits = 0

OthersThanBatch ==
    <<createVars, verifyVars, migVars, rollbackVars, factoryVars, readVars, appVars,
      providerVars, raceVars, writeVars, pageVars>>

\* runBatchMigration up to the call of createBatches
B_Start ==
    /\ b_pc = "start"
    /\ b_pc' = "batching"
    /\ b_i' = 0
    /\ b_batches' = <<>>
    /\ UNCHANGED <<b_config, b_k, b_migrated, b_saved, b_waits>>
    /\ UNCHANGED OthersThanBatch

\* createBatches: one test of  i < array.length  and one loop body
B_Slice ==
    /\ b_pc = "batching"
    /\ IF b_i < Len(b_config.cids)
          THEN /\ Len(b_batches) < MaxBatches
               /\ b_batches' = Append(b_batches,
                                      Slice(b_config.cids, b_i,
                                            b_i + EffectiveBatchSize(b_config)))
               /\ b_i' = b_i + EffectiveBatchSize(b_config)
               /\ UNCHANGED b_pc
          ELSE /\ b_pc' = "loop"
               /\ UNCHANGED <<b_i, b_batches>>
    /\ UNCHANGED <<b_config, b_k, b_migrated, b_saved, b_waits>>
    /\ UNCHANGED OthersThanBatch

\* for (let i = 0; i < batches.length; i++): await migrateAllContent(batch),
\* which handles every identifier of the batch in order and does not throw
B_Migrate ==
    /\ b_pc = "loop"
    /\ IF b_k < Len(b_batches)
          THEN /\ b_migrated' = b_migrated \o b_batches[b_k + 1]
               /\ b_pc' = "save"
          ELSE /\ b_pc' = "done"
               /\ UNCHANGED b_migrated
    /\ UNCHANGED <<b_config, b_i, b_batches, b_k, b_saved, b_waits>>
    /\ UNCHANGED OthersThanBatch

\* saveProgress: localStorage.setItem succeeds, or throws into the catch of the
\* loop body, which goes on with the next batch without the delay
B_Save ==
    /\ b_pc = "save"
    /\ \/ /\ b_saved' = b_saved + 1
          /\ IF b_k < Len(b_batches) - 1
                THEN /\ b_pc' = "delay"
                     /\ UNCHANGED b_k
                ELSE /\ b_pc' = "loop"
                     /\ b_k' = b_k + 1
       \/ /\ b_pc' = "loop"
          /\ b_k' = b_k + 1
          /\ UNCHANGED b_saved
    /\ UNCHANGED <<b_config, b_i, b_batches, b_migrated, b_waits>>
    /\ UNCHANGED OthersThanBatch

\* await this.delay(delay)
B_Delay ==
    /\ b_pc = "delay"
    /\ b_waits' = b_waits + 1
    /\ b_k' = b_k + 1
    /\ b_pc' = "loop"
    /\ UNCHANGED <<b_config, b_i, b_batches, b_migrated, b_saved>>
    /\ UNCHANGED OthersThanBatch

-----------------------------------------------------------------------------
(* Two createTitle runs against the same contract: the funding block, the    *)
(* admin check and the application call of each, interleaved at their awaits *)

Runs == {1, 2}

RunLocals(p, acct) ==
    [pc |-> p, account |-> acct,
     ctrBalRead |-> -1,         \* contractInfo.amount, -1 while not read
     minCtr |-> 0,              \* minContractBalance, 0 while not computed
     fundState |-> "none",      \* progress of the self-funding block
     called |-> FALSE,          \* the create_title call was submitted
     lowAtCall |-> FALSE]       \* the contract was below the minimum for the assets
                                \* it held plus one when the call was submitted

InitRace ==
    /\ \E a \in Accounts :
          race = [r \in Runs |->
                    RunLocals("contractInfo",
                              IF r = 1 THEN a ELSE CHOOSE b \in Accounts : b # a)]
    /\ ctrBal \in CtrBalances
    /\ ctrAssets \in 0..MaxExistingAssets
    /\ storedAdmin \in Accounts \cup {NoAdmin}

OthersThanRace ==
    <<acctBal, storedAdmin, drift, chainAssets, runVars, verifyVars, migVars, rollbackVars,
      factoryVars, readVars, appVars, providerVars, batchVars, writeVars, pageVars>>

\* the catch of the funding block in run r
RaceCaught(r, e) ==
    IF FundingRethrows(e)
        THEN race' = [race EXCEPT ![r].pc = "done", ![r].fundState = "insufficient"]
        ELSE race' = [race EXCEPT ![r].pc = "adminCheck", ![r].fundState = "failed"]

\* accountInformation(appAddress); minimum computation
X_ContractInfo(r) ==
    /\ race[r].pc = "contractInfo"
    /\ \/ LET min == minContractBalance(ctrAssets)
          IN  race' = [race EXCEPT ![r].ctrBalRead = ctrBal, ![r].minCtr = min,
                                   ![r].fundState = IF ctrBal < min THEN "needed"
                                                    ELSE "notneeded",
                                   ![r].pc = IF ctrBal < min THEN "fund" ELSE "adminCheck"]
       \/ \E e \in NodeErrs :
             race' = [race EXCEPT ![r].pc = IF FundingRethrows(e) THEN "done"
                                           ELSE "adminCheck",
                                  ![r].fundState = "unread"]
    /\ UNCHANGED <<ctrBal, ctrAssets>>
    /\ UNCHANGED OthersThanRace

\* the funding payment signed, submitted and confirmed, or one of these failing
X_Fund(r) ==
    /\ race[r].pc = "fund"
    /\ \/ /\ ctrBal' = ctrBal + fundingAmount(race[r].minCtr, race[r].ctrBalRead)
          /\ race' = [race EXCEPT ![r].pc = "reread"]
       \/ \E e \in WalletErrs \cup SubmitErrs \cup ConfirmErrs :
          /\ RaceCaught(r, e)
          /\ UNCHANGED ctrBal
    /\ UNCHANGED ctrAssets
    /\ UNCHANGED OthersThanRace

\* accountInformation(appAddress) again; updatedContractInfo.amount < minContractBalance
X_Reread(r) ==
    /\ race[r].pc = "reread"
    /\ \/ IF ctrBal < race[r].minCtr
             THEN RaceCaught(r, Err("FundingNotSufficient"))
             ELSE race' = [race EXCEPT ![r].pc = "adminCheck", ![r].fundState = "verified"]
       \/ \E e \in NodeErrs : RaceCaught(r, e)
    /\ UNCHANGED <<ctrBal, ctrAssets>>
    /\ UNCHANGED OthersThanRace

\* getApplicationByID(appId); admin entry lookup; storedAdmin !== account
X_AdminCheck(r) ==
    /\ race[r].pc = "adminCheck"
    /\ \E readable \in BOOLEAN :
          race' = [race EXCEPT ![r].pc =
                      IF AdminFinding(readable, storedAdmin, race[r].account) = "ok"
                         THEN "call" ELSE "done"]
    /\ UNCHANGED <<ctrBal, ctrAssets>>
    /\ UNCHANGED OthersThanRace

\* the create_title call built, signed and submitted, or refused by the wallet
X_Call(r) ==
    /\ race[r].pc = "call"
    /\ \/ race' = [race EXCEPT ![r].pc = "confirm", ![r].called = TRUE,
                                ![r].lowAtCall = ctrBal < minContractBalance(ctrAssets)]
       \/ race' = [race EXCEPT ![r].pc = "done"]
    /\ UNCHANGED <<ctrBal, ctrAssets>>
    /\ UNCHANGED OthersThanRace

\* the call confirmed: the contract holds one more asset; or the call failed
X_Confirm(r) ==
    /\ race[r].pc = "confirm"
    /\ race' = [race EXCEPT ![r].pc = "done"]
    /\ \/ ctrAssets' = ctrAssets + 1
       \/ UNCHANGED ctrAssets
    /\ UNCHANGED ctrBal
    /\ UNCHANGED OthersThanRace

-----------------------------------------------------------------------------
(* Write operations started from the pages: the create form and the transfer *)
(* form of the dashboard, the transfer form of MyTitles, and the navigation  *)
(* between the routes                                                        *)

MaxWrites == 3

Pages == {"/admin", "/my-titles"}
WriteKinds == {"create-title", "admin-transfer", "user-transfer"}

\* a started write: its kind, whether the component instance that started it is
\* still mounted, and whether it has completed or failed
Write(kind) == [kind |-> kind, live |-> TRUE, settled |-> FALSE]

InitWrites ==
    /\ w_page \in Pages
    /\ w_isLoading = FALSE /\ w_isTransferring = FALSE /\ w_myTransferring = FALSE
    /\ w_flight = <<>>

OthersThanWrites ==
    <<createVars, verifyVars, migVars, rollbackVars, factoryVars, readVars, appVars,
      providerVars, batchVars, raceVars, pageVars>>

Unmounted(flight) == [i \in DOMAIN flight |-> [flight[i] EXCEPT !.live = FALSE]]

\* a Navigation link to another route: the page component is replaced by a fresh one
W_Navigate(p) ==
    /\ p # w_page
    /\ w_page' = p
    /\ w_isLoading' = FALSE /\ w_isTransferring' = FALSE /\ w_myTransferring' = FALSE
    /\ w_flight' = Unmounted(w_flight)
    /\ UNCHANGED OthersThanWrites

\* the create form submitted (its button is disabled while isLoading)
W_SubmitCreate ==
    /\ w_page = "/admin" /\ ~w_isLoading
    /\ Len(w_flight) < MaxWrites
    /\ w_isLoading' = TRUE
    /\ w_flight' = Append(w_flight, Write("create-title"))
    /\ UNCHANGED <<w_page, w_isTransferring, w_myTransferring>>
    /\ UNCHANGED OthersThanWrites

\* the dashboard's transfer form submitted (its button is disabled while isTransferring)
W_SubmitAdminTransfer ==
    /\ w_page = "/admin" /\ ~w_isTransferring
    /\ Len(w_flight) < MaxWrites
    /\ w_isTransferring' = TRUE
    /\ w_flight' = Append(w_flight, Write("admin-transfer"))
    /\ UNCHANGED <<w_page, w_isLoading, w_myTransferring>>
    /\ UNCHANGED OthersThanWrites

\* the transfer form of MyTitles submitted (its button is disabled while isTransferring)
W_SubmitUserTransfer ==
    /\ w_page = "/my-titles" /\ ~w_myTransferring
    /\ Len(w_flight) < MaxWrites
    /\ w_myTransferring' = TRUE
    /\ w_flight' = Append(w_flight, Write("user-transfer"))
    /\ UNCHANGED <<w_page, w_isLoading, w_isTransferring>>
    /\ UNCHANGED OthersThanWrites

\* a write completes or fails: the finally of its handler clears the flag of the
\* component instance that started it, if that instance is still mounted
W_Settle(i) ==
    /\ i \in DOMAIN w_flight /\ ~w_flight[i].settled
    /\ w_flight' = [w_flight EXCEPT ![i].settled = TRUE]
    /\ LET clears(kind) == w_flight[i].live /\ w_flight[i].kind = kind
       IN  /\ w_isLoading' = IF clears("create-title") THEN FALSE ELSE w_isLoading
           /\ w_isTransferring' = IF clears("admin-transfer") THEN FALSE
                                   ELSE w_isTransferring
           /\ w_myTransferring' = IF clears("user-transfer") THEN FALSE
                                   ELSE w_myTransferring
    /\ UNCHANGED w_page
    /\ UNCHANGED OthersThanWrites

InFlight == {i \in DOMAIN w_flight : ~w_flight[i].settled}

-----------------------------------------------------------------------------
(* The migration dashboard: the two provider selects and Start Migration *)

MaxDashRuns == 2

NoMigrator == [kind |-> "none", source |-> "", target |-> ""]

InitDash ==
    /\ d_env \in {e \in Envs : e.changes = 0}
    /\ d_source = "pinata" /\ d_target = "nodely"      \* useState defaults
    /\ d_isLoading = FALSE
    /\ d_migrator = NoMigrator
    /\ d_runs = 0

OthersThanPages ==
    <<createVars, verifyVars, migVars, rollbackVars, factoryVars, readVars, appVars,
      providerVars, batchVars, raceVars, writeVars>>

\* new ContentMigrator(sourceProviderType, targetProviderType): two create calls
NewMigrator(source, target, env) ==
    LET src == Create(source, env)
        tgt == Create(target, env)
    IN  IF src.kind = "throw" \/ tgt.kind = "throw"
           THEN [kind |-> "throw", source |-> "", target |-> ""]
           ELSE [kind |-> "made", source |-> src.backend, target |-> tgt.backend]

\* the Source Provider select
D_SelectSource(b) ==
    /\ b # d_source
    /\ d_source' = b
    /\ UNCHANGED <<d_env, d_target, d_isLoading, d_migrator, d_runs>>
    /\ UNCHANGED <<formVars, OthersThanPages>>

\* the Target Provider select
D_SelectTarget(b) ==
    /\ b # d_target
    /\ d_target' = b
    /\ UNCHANGED <<d_env, d_source, d_isLoading, d_migrator, d_runs>>
    /\ UNCHANGED <<formVars, OthersThanPages>>

\* Start Migration (disabled when isLoading or the selects are equal), with
\* identifiers entered: handleMigration up to its first await
D_Start ==
    /\ ~d_isLoading /\ d_source # d_target
    /\ d_runs < MaxDashRuns
    /\ d_runs' = d_runs + 1
    /\ d_migrator' = NewMigrator(d_source, d_target, d_env)
    \* a throwing constructor is caught, and finally clears isLoading
    /\ d_isLoading' = (d_migrator'.kind = "made")
    /\ UNCHANGED <<d_env, d_source, d_target>>
    /\ UNCHANGED <<formVars, OthersThanPages>>

\* migrateAllContent and validateMigration settle; finally { setIsLoading(false) }
D_Finish ==
    /\ d_isLoading
    /\ d_isLoading' = FALSE
    /\ UNCHANGED <<d_env, d_source, d_target, d_migrator, d_runs>>
    /\ UNCHANGED <<formVars, OthersThanPages>>

-----------------------------------------------------------------------------
(* The create form of AdminDashboard, the dashboard's transfer form and the  *)
(* transfer form of MyTitles: handleSubmit, handleTransferSubmit and         *)
(* handleTransfer                                                            *)

Forms == {"create", "adminTransfer", "userTransfer"}
FormInputs == {"LR/2024/001", "LR/2024/002"}    \* what the user typed into the fields
Titles == {"ledger", "demo"}                    \* selectedTitle: assetId below / from 999000

SessionAccount == "ADMIN"                       \* useApp(): account
Connector == "PeraWalletConnect"                \* useApp(): peraWallet
OwnerAddress == "OWNERADDRESS"                  \* formData.initialOwnerAddress
UploadedUrl == "ipfs://QmA"                     \* `ipfs://${metadataCid}`

\* conditions a write runs under
Conditions == {"good", "walletRejects", "unfunded", "notOptedIn", "other"}

NoCallParams == [account |-> "", landId |-> "", metadataUrl |-> "", peraWallet |-> ""]

EmptyForm ==
    [pc |-> "idle",
     data |-> "",           \* the entered form fields, "" when reset
     doc |-> "",            \* the selected document (create form), "" when none
     title |-> "",          \* the selected title (MyTitles)
     success |-> "",        \* successMessage / transferSuccessMessage / transferSuccess
     error |-> "",          \* errorMessage / transferErrorMessage / transferError
     last |-> "none",       \* how the latest handler run ended
     wrote |-> FALSE,       \* the latest handler run called the write operation
     params |-> NoCallParams,   \* createTitle's parameters as bound by that call
     cond |-> ""]           \* the condition that write ran under

InitForms ==
    /\ fm_demo \in BOOLEAN
    /\ fm = [f \in Forms |-> EmptyForm]

OthersThanForms ==
    <<createVars, verifyVars, migVars, rollbackVars, factoryVars, readVars, appVars,
      providerVars, batchVars, raceVars, writeVars, dashVars>>

\* errors as the handlers' catch blocks see them: the probed substrings they hold
FormErr(isErr, probes) == [isError |-> isErr, has |-> probes]

\* the argument list of the createTitle call in handleSubmit
CreateArgs(landId) == <<SessionAccount, landId, UploadedUrl, OwnerAddress, Connector>>

\* createTitle(account, landId, metadataUrl, peraWallet): positional binding
BindCreateTitle(args) ==
    [account |-> args[1], landId |-> args[2], metadataUrl |-> args[3],
     peraWallet |-> args[4]]

\* how createTitle settles for its caller under a condition
CreateTitleOutcome(params, cond) ==
    IF cond = "unfunded"
        THEN [kind |-> "throw", err |-> FormErr(TRUE, {"Insufficient funds"})]
    ELSE IF cond \in {"other", "notOptedIn"}
        THEN [kind |-> "throw", err |-> FormErr(TRUE, {})]
    \* the signer calls peraWallet.signTransaction(...)
    ELSE IF params.peraWallet # Connector
        THEN [kind |-> "throw", err |-> FormErr(TRUE, {})]
    ELSE IF cond = "walletRejects"
        THEN [kind |-> "throw", err |-> FormErr(TRUE, {"User rejected"})]
    ELSE [kind |-> "return", err |-> FormErr(FALSE, {})]

\* how adminTransferTitle / userTransferTitle settle for their caller
TransferOutcome(cond) ==
    CASE cond = "good"          -> [kind |-> "return", err |-> FormErr(FALSE, {})]
      [] cond = "walletRejects" -> [kind |-> "throw", err |-> FormErr(TRUE, {"User rejected"})]
      [] cond = "unfunded"      -> [kind |-> "throw", err |-> FormErr(TRUE, {"overspend"})]
      [] cond = "notOptedIn"    -> [kind |-> "throw",
                                    err |-> FormErr(TRUE, {"asset not opted in"})]
      [] OTHER                  -> [kind |-> "throw", err |-> FormErr(FALSE, {})]

\* the message the catch of a handler sets
ErrorMessage(f, e) ==
    IF ~e.isError
        THEN IF f = "create" THEN "Failed to create land title. Please try again."
             ELSE "Failed to transfer title. Please try again."
    ELSE IF "User rejected" \in e.has THEN "rejected in the Pera Wallet app"
    ELSE IF "overspend" \in e.has \/ "Insufficient funds" \in e.has
        THEN "not enough Algos"
    ELSE IF f # "create" /\ "asset not opted in" \in e.has THEN "receiver has not opted in"
    ELSE "Error: message"

\* a catch that also clears the form
Failed_ClearsForm(form, f, e) ==
    [form EXCEPT !.pc = "idle", !.last = "failure", !.error = ErrorMessage(f, e),
                 !.data = "", !.doc = ""]

\* catch (error) { ... setErrorMessage(message) } finally { setIsLoading(false) }
Failed(form, f, e) ==
    [form EXCEPT !.pc = "idle", !.last = "failure", !.error = ErrorMessage(f, e)]

\* the statements after the awaited write: success message, form reset; finally
Succeeded(form, f) ==
    [form EXCEPT !.pc = "idle", !.last = "success",
                 !.success = IF f = "create" THEN "created" ELSE "transferred",
                 !.data = "", !.doc = ""]

SetForm(f, form) == fm' = [fm EXCEPT ![f] = form]

\* the user fills the fields in (and picks a document or a title)
U_Fill(f) ==
    /\ fm[f].pc = "idle"
    /\ \E d \in FormInputs, t \in Titles :
          /\ t = "demo" => fm_demo
          /\ SetForm(f, [fm[f] EXCEPT !.data = d,
                                      !.doc = IF f = "create" THEN "deed.pdf" ELSE "",
                                      !.title = IF f = "userTransfer" THEN t ELSE "",
                                      !.last = "none", !.wrote = FALSE,
                                      !.params = NoCallParams, !.cond = ""])
    /\ UNCHANGED fm_demo
    /\ UNCHANGED OthersThanForms

\* the form is submitted: the handler up to its first await
U_Submit(f) ==
    /\ fm[f].pc = "idle" /\ fm[f].data # ""
    /\ f = "create" => fm[f].doc # ""
    /\ f = "userTransfer" => fm[f].title # ""
    /\ LET form == [fm[f] EXCEPT !.wrote = FALSE, !.params = NoCallParams, !.cond = ""]
       IN  IF f = "create"
              THEN \E valid \in BOOLEAN :
                      IF valid
                         THEN SetForm(f, [form EXCEPT !.pc = "uploadFile", !.success = "",
                                                      !.error = "", !.last = "none"])
                         ELSE SetForm(f, [form EXCEPT !.error = "invalid address",
                                                      !.last = "invalid"])
           ELSE IF f = "userTransfer" /\ fm_demo /\ form.title = "demo"
              THEN SetForm(f, [form EXCEPT !.success = "Demo transfer completed!",
                                           !.data = "", !.last = "demo"])
           ELSE SetForm(f, [form EXCEPT !.pc = "write", !.success = "", !.error = "",
                                        !.last = "none", !.wrote = TRUE])
    /\ UNCHANGED fm_demo
    /\ UNCHANGED OthersThanForms

\* await IPFSService.uploadFile(document)
U_UploadFile ==
    /\ fm["create"].pc = "uploadFile"
    /\ \/ SetForm("create", [fm["create"] EXCEPT !.pc = "uploadJSON"])
       \/ SetForm("create", Failed(fm["create"], "create", FormErr(TRUE, {})))
    /\ UNCHANGED fm_demo
    /\ UNCHANGED OthersThanForms

\* await IPFSService.uploadJSON(metadata), then the call of createTitle
U_UploadJSON ==
    /\ fm["create"].pc = "uploadJSON"
    /\ \/ SetForm("create",
                  [fm["create"] EXCEPT !.pc = "write", !.wrote = TRUE,
                       !.params = BindCreateTitle(CreateArgs(fm["create"].data))])
       \/ SetForm("create", Failed(fm["create"], "create", FormErr(TRUE, {})))
    /\ UNCHANGED fm_demo
    /\ UNCHANGED OthersThanForms

\* the awaited write settles and the handler runs to its end
U_WriteSettles(f) ==
    /\ fm[f].pc = "write"
    /\ \E cond \in Conditions :
          LET form == [fm[f] EXCEPT !.cond = cond]
              out == IF f = "create" THEN CreateTitleOutcome(form.params, cond)
                     ELSE TransferOutcome(cond)
          IN  IF out.kind = "return"
                 THEN SetForm(f, Succeeded(form, f))
                 ELSE SetForm(f, Failed(form, f, out.err))
    /\ UNCHANGED fm_demo
    /\ UNCHANGED OthersThanForms

-----------------------------------------------------------------------------
(* Properties of createTitle *)

HasEvent(ev) == \E k \in 1..Len(events) : events[k] = ev
AppCallBuilt == HasEvent("build_appcall")
FundingNeeded == ct.ctrBalRead # -1 /\ ct.ctrBalRead < ct.minCtr
FundingEvents == <<"build_funding", "sign_funding", "submit_funding", "confirm_funding">>

\* C1 (as stated): whenever the caller's ledger balance is below 302000 when
\* createTitle starts, the run ends at once with the InsufficientFunds error and
\* no transaction has been built, signed or submitted.
C1_BelowMinimumAlwaysFails ==
    [][(ct.pc = "start" /\ acctBal < 302000)
          => (ct'.pc = "done" /\ result'.kind = "throw"
              /\ result'.msg = "InsufficientFundsWallet" /\ events' = <<>>)]_vars

\* C1 (amended): whenever the pre-flight read of the caller's balance succeeds and
\* returns less than 302000, createTitle has failed with the InsufficientFunds
\* error and no transaction has been built, signed or submitted.
C1_ReadBelowMinimumFails ==
    (ct.balanceRead = "ok" /\ ct.balance < 302000)
        => (ct.pc = "done" /\ result.kind = "throw"
            /\ result.msg = "InsufficientFundsWallet" /\ events = <<>>)

C1_Witness ==
    /\ ct.balanceRead = "ok" /\ ct.balance = 1500
    /\ ct.pc = "done" /\ result.msg = "InsufficientFundsWallet" /\ events = <<>>

\* C2 (as stated): when an asset identifier was extracted and the 3 verification
\* attempts did not converge, the caller receives the asset identifier with a
\* pending-verification state, and the outcome is not reported as a failed create.
C2_PendingDelivered ==
    (ct.pc = "done" /\ ct.assetId # 0 /\ ct.attempt = maxRetries)
        => /\ result.msg # "FailedToCreateTitle"
           /\ \/ result.kind = "return" /\ result.value = ct.assetId
              \/ result.status = "PENDING_VERIFICATION" /\ result.assetId = ct.assetId

\* C3 (as stated): when the contract balance was read below the minimum, the
\* application call is built only after the funding payment was signed, submitted
\* and confirmed and the balance re-read as sufficient; it is never built after a
\* funding step that failed or after an unreadable contract balance.
C3_FundingCompletesBeforeCall ==
    /\ (AppCallBuilt /\ FundingNeeded)
          => /\ HasEvent("sign_funding") /\ HasEvent("submit_funding")
             /\ HasEvent("confirm_funding")
             /\ ct.ctrBalReread >= ct.minCtr
    /\ AppCallBuilt => ct.fundState \notin {"failed", "unread"}

\* C3 (amended): when the contract balance is read below the minimum the funding
\* payment is built first; after a funding that was signed, submitted and
\* confirmed the application call is built only if the re-read balance is
\* sufficient, and an insufficient re-read ends createTitle without the call; a
\* funding step that fails otherwise is logged and createTitle continues.
C3_CallAfterFundingOrLoggedFailure ==
    /\ FundingNeeded => (Len(events) >= 1 /\ events[1] = "build_funding")
    /\ (AppCallBuilt /\ FundingNeeded)
          => \/ /\ ct.fundState = "verified"
                /\ SubSeq(events, 1, 4) = FundingEvents
                /\ ct.ctrBalReread >= ct.minCtr
             \/ ct.fundState = "failed"
    /\ (AppCallBuilt /\ ~FundingNeeded)
          => \/ ct.fundState = "notneeded" /\ ct.ctrBalRead >= ct.minCtr
             \/ ct.fundState = "unread"
    /\ (ct.ctrBalReread # -1 /\ ct.ctrBalReread < ct.minCtr)
          => (~AppCallBuilt /\ ct.pc = "done" /\ result.kind = "throw")

C3_Witness ==
    /\ AppCallBuilt /\ FundingNeeded
    /\ ct.fundState = "verified" /\ HasEvent("confirm_funding")

\* C4: the create_title call is built, signed and submitted only after the global
\* state was read and the admin entry found there equals the caller; a differing
\* or missing entry or an unreadable state ends createTitle with the
\* authorization error and the call is never built.
C4_AdminGate ==
    /\ AppCallBuilt
          => (ct.adminCheck = "ok" /\ storedAdmin # NoAdmin /\ storedAdmin = ct.account)
    /\ (HasEvent("sign_appcall") \/ HasEvent("submit_appcall")) => AppCallBuilt
    /\ ct.adminCheck \in {"mismatch", "missing", "unreadable"}
          => /\ ct.pc = "done"
             /\ result = Thrown("FailedToCreateTitle", "AdminVerifyFailed")
             /\ ~AppCallBuilt
    /\ (ct.adminCheck = "none" /\ ct.pc = "done") => ~AppCallBuilt

C4_Witness ==
    /\ HasEvent("submit_appcall") /\ ct.adminCheck = "ok" /\ storedAdmin = ct.account

\* C19 (as stated): the error that reaches the caller of createTitle after a
\* failed pre-flight check is the InsufficientFunds error and its text states
\* the account's balance and the required minimum.
C19_ShortfallReachesCaller ==
    (ct.pc = "done" /\ ct.balanceRead = "ok" /\ ct.balance < minRequired)
        => /\ result.kind = "throw"
           /\ result.msg \in {"InsufficientFunds", "InsufficientFundsWallet"}
           /\ result.shown = <<ct.balance, minRequired>>

C27_NonAdminSubmitsNothing ==
    storedAdmin # ct.account
        => /\ ~HasEvent("submit_funding")
           /\ ~HasEvent("submit_appcall")

-----------------------------------------------------------------------------
(* Properties of the verification resolver *)

OwnerResolved == v_pc \in {"meta", "txns2"} \/ (v_pc = "done" /\ v_result # NoRecord)
TransfersRead == FilterTransfers(v_txns)
GreatestRound(txns) == CHOOSE r \in {txns[k].round : k \in 1..Len(txns)} :
                          \A k \in 1..Len(txns) : txns[k].round <= r

C6_OwnerIsHolder ==
    (OwnerResolved /\ v_txns # <<>> /\ Len(v_txns) = Len(history)) => v_owner = holder

RecordTransfers == FilterTransfers(v_result.transactions)

\* C39 (as stated): every record returned by verify is consistent with itself,
\* also when a transfer is confirmed while verify runs: its currentOwner is the
\* receiver of a transfer of greatest round among the transfers of the record's
\* own transactions list, or the creator when that list holds no transfer.
\* Checked for the searches whose two history reads were both answered.
C39_RecordOwnerMatchesItsHistory ==
    (v_result # NoRecord /\ v_txns # <<>> /\ v_result.transactions # <<>>) =>
        IF Len(RecordTransfers) > 0
           THEN \E k \in 1..Len(RecordTransfers) :
                   /\ RecordTransfers[k].round = GreatestRound(RecordTransfers)
                   /\ v_result.currentOwner = RecordTransfers[k].receiver
           ELSE v_result.currentOwner = asset.creator

\* the four structural checks of the claim
FourChecks(a) ==
    MatchesLandId(a.name) /\ a.decimals = 0 /\ a.total = 1 /\ HasUrl(a.url)
FailingChecks(a) ==
    (IF MatchesLandId(a.name) THEN {} ELSE {"landId"})
    \cup (IF a.decimals = 0 THEN {} ELSE {"decimals"})
    \cup (IF a.total = 1 THEN {} ELSE {"total"})
    \cup (IF HasUrl(a.url) THEN {} ELSE {"url"})
Accepted == v_pc \in {"txns1", "meta", "txns2"} \/ v_result # NoRecord
Rejected == v_pc = "done" /\ v_error.kind = "invalidTitle"

\* C7 (as stated): the asset is accepted exactly when the four structural checks
\* pass, and a rejection lists every failing check, so at least one.
C7_FourChecksDecide ==
    /\ Accepted => FourChecks(asset)
    /\ Rejected => /\ ~FourChecks(asset)
                   /\ v_error.issues # <<>>
                   /\ {v_error.issues[k] : k \in 1..Len(v_error.issues)}
                         = FailingChecks(asset)

\* C23: a search for an identifier the indexer does not know, answered by the
\* indexer, ends in the not-found error state with no record, whatever an
\* earlier search displayed.
C23_UnknownAssetNotFound ==
    (v_pc = "done" /\ ~v_known /\ v_info.id = "404asset")
        => /\ v_error.kind = "notFound404"
           /\ v_result = NoRecord
           /\ ~v_loading

\* the second search: not found; the first one had displayed a record
C23_Witness ==
    /\ v_pc = "done" /\ ~v_known /\ v_info.id = "404asset"
    /\ v_error.kind = "notFound404" /\ v_result = NoRecord
    /\ v_seen

\* C24 (as stated): after the metadata document could not be fetched or parsed
\* the run goes on without an error, and the record it produces has metadata null.
C24_MetadataFailureNonFatal ==
    v_gw \in {"failed", "unparsable"}
        => /\ v_pc = "txns2" => (v_meta = "null" /\ v_error = NoError)
           /\ (v_pc = "done" /\ v_result # NoRecord)
                 => (v_result.metadata = "null" /\ v_error = NoError)

-----------------------------------------------------------------------------
(* Properties of the content migrator *)

\* C8: migrateAllContent processes the whole list whatever fails: the report it
\* returns has results.length = totalItems = N, successCount + failureCount = N
\* and results[i].originalCid = cids[i] for every i, and it does not throw.
C8_ReportCoversInput ==
    /\ m_op = "migrateAll" =>
          /\ m_report.totalItems = Len(m_cids)
          /\ m_report.successCount + m_report.failureCount = Len(m_report.results)
          /\ Len(m_report.results) <= Len(m_cids)
    /\ m_report.ended =>
          /\ ~m_threw
          /\ Len(m_report.results) = Len(m_cids)
          /\ m_report.totalItems = Len(m_cids)
          /\ m_report.successCount + m_report.failureCount = Len(m_cids)
          /\ \A i \in 1..Len(m_cids) : m_report.results[i].originalCid = m_cids[i]

C8_Witness ==
    /\ m_report.ended
    /\ Len(m_cids) = 2
    /\ ~m_report.results[1].success
    /\ m_report.results[2].success
    /\ m_report.successCount = 1 /\ m_report.failureCount = 1

\* C9: migrateSingleAsset never throws; it resolves to {success: true,
\* originalCid, newCid} when the upload succeeded and to {success: false,
\* originalCid, newCid: "", error} otherwise; success holds exactly when newCid is
\* the identifier the target provider returned.
C9_SingleAssetResolves ==
    /\ ms_pc # "threw"
    /\ ~m_threw
    /\ ms_pc \in {"resolved", "delay"} =>
          /\ ms_result.originalCid = ms_cid
          /\ ms_result.success <=> ms_uploaded # ""
          /\ ms_result.success =>
                (ms_result.newCid = ms_uploaded /\ ms_result.error = "")
          /\ ~ms_result.success =>
                (ms_result.newCid = "" /\ ms_result.error \in {"fetch", "parse", "upload"})

C9_Witness ==
    /\ m_op = "single" /\ ms_pc = "resolved"
    /\ ~ms_result.success /\ ms_result.error = "upload" /\ ms_result.newCid = ""

SeenValid(k) ==
    /\ val_seen[k].fetchedA /\ val_seen[k].fetchedB
    /\ Stringify(val_seen[k].a) = Stringify(val_seen[k].b)

\* C10: validateMigration never throws; totalValidated is the number of pairs,
\* validCount + invalidCount = totalValidated on return; a pair is counted valid
\* only if both contents were fetched and are serialized-equal, every other pair
\* is counted invalid with exactly one error string, and validation goes on.
C10_ValidationCounts ==
    (m_op = "validate" \/ val_report.ended) =>
        /\ ~m_threw
        /\ val_report.totalValidated = Len(val_pairs)
        /\ val_report.validCount + val_report.invalidCount = Len(val_seen)
        /\ val_report.validCount = Cardinality({k \in 1..Len(val_seen) : SeenValid(k)})
        /\ Len(val_report.errors) = val_report.invalidCount
        /\ val_report.ended => Len(val_seen) = val_report.totalValidated

C10_Witness ==
    /\ val_report.ended
    /\ val_report.totalValidated = 2
    /\ ~SeenValid(1) /\ val_seen[1].fetchedA /\ val_seen[1].fetchedB
    /\ SeenValid(2)
    /\ val_report.validCount = 1 /\ val_report.invalidCount = 1

Remigrated(i, j) ==
    /\ i < j
    /\ m_report.results[i].success /\ m_report.results[j].success
    /\ m_report.results[i].originalCid = m_report.results[j].originalCid

\* C22 (as stated): migrateSingleAsset run twice on the same identifier gives two
\* successful results whose newCid values differ, the content being identical.
C22_RemigrationGivesNewCid ==
    \A i, j \in 1..Len(m_report.results) :
        Remigrated(i, j)
            => /\ m_report.results[i].newCid # m_report.results[j].newCid
               /\ tgtStore[m_report.results[i].newCid] = tgtStore[m_report.results[j].newCid]

\* C22 (amended): each of the two successful results names an identifier the
\* target returned, under which the target holds the content of the source
\* identifier; the two identifiers may be equal.
C22_RemigrationKeepsContent ==
    \A i, j \in 1..Len(m_report.results) :
        Remigrated(i, j)
            => \A k \in {i, j} :
                  /\ m_report.results[k].newCid \in DOMAIN tgtStore
                  /\ tgtStore[m_report.results[k].newCid]
                        = srcStore[m_report.results[k].originalCid]
                  /\ tgtStore[m_report.results[k].newCid] # Missing

\* the same identifier was migrated twice with success, and the target answered
\* with the same identifier both times
C22_Witness ==
    /\ Len(m_report.results) = 2 /\ Remigrated(1, 2)
    /\ m_report.results[1].newCid = m_report.results[2].newCid

\* C30: migrateAllContent is sequential: an item starts only after the result of
\* every earlier item was appended and counted, and the loop advances to the
\* next item only out of its delay, which adds 100 ms.
C30_OneItemAtATime ==
    [][m_op = "migrateAll"
          => /\ (ms_pc' = "fetch" /\ ms_pc # "fetch")
                  => /\ Len(m_report.results) = m_i - 1
                     /\ m_report.successCount + m_report.failureCount = m_i - 1
                     /\ ms_cid' = m_cids[m_i]
             /\ m_i' # m_i
                  => /\ ms_pc = "delay" /\ m_i' = m_i + 1
                     /\ Len(m_report.results) = m_i
                     /\ m_waited' = m_waited + 100]_vars

\* the second item of a run is being fetched, after the first item's result was
\* recorded and one delay elapsed
C30_Witness ==
    /\ m_op = "migrateAll" /\ m_i = 2 /\ ms_pc = "fetch"
    /\ Len(m_report.results) = 1 /\ m_waited = 100

-----------------------------------------------------------------------------
(* Properties of the provider factory *)

Configured(backend, env) == IF backend = "nodely" THEN env.nodelyKey ELSE env.pinataKeys
OtherBackend(backend) == IF backend = "nodely" THEN "pinata" ELSE "nodely"
ConstructorError(backend) ==
    IF backend = "nodely" THEN "NodelyKeyNotConfigured" ELSE "PinataCredentialsNotConfigured"
Requested(call) == EffectiveProvider(call.arg, call.env)

\* C12: create(type) returns the requested backend whenever its construction
\* succeeds; if it throws, create returns the other backend; an exception reaches
\* the caller only when both constructions fail, and it is the one of the second
\* (fallback) construction.
C12_CreateFallsBack ==
    (f_ret.op = "create" /\ Requested(f_ret) \in Backends) =>
        LET req == Requested(f_ret)
            other == OtherBackend(req)
        IN  /\ Configured(req, f_ret.env)
               => (f_ret.kind = "return" /\ f_ret.obj.backend = req)
            /\ (~Configured(req, f_ret.env) /\ Configured(other, f_ret.env))
               => (f_ret.kind = "return" /\ f_ret.obj.backend = other)
            /\ (~Configured(req, f_ret.env) /\ ~Configured(other, f_ret.env))
               => (f_ret.kind = "throw" /\ f_ret.msg = ConstructorError(other))

C12_Witness ==
    /\ f_ret.op = "create" /\ Requested(f_ret) = "nodely"
    /\ ~f_ret.env.nodelyKey /\ f_ret.env.pinataKeys
    /\ f_ret.kind = "return" /\ f_ret.obj.backend = "pinata"

\* C13: no provider exists before the first getInstance; all getInstance calls
\* between two resetInstance calls return one and the same object, whatever type
\* they request; after resetInstance getInstance returns an object never
\* returned before; a getInstance whose construction throws caches nothing.
C13_SingletonPerEpoch ==
    /\ Cardinality(f_epoch) <= 1
    /\ f_epoch \cap f_old = {}
    /\ instance # NoInstance => f_epoch = {instance.id}
    /\ instance = NoInstance => f_epoch = {}
    /\ (f_ret.op = "getInstance" /\ f_ret.kind = "throw") => instance = NoInstance
    /\ (f_ret.op = "getInstance" /\ f_ret.kind = "return") => f_ret.obj = instance

C13_Witness ==
    /\ f_ret.op = "getInstance" /\ f_ret.kind = "return"
    /\ f_ret.arg # "" /\ f_ret.obj.backend \notin {f_ret.arg}
    /\ Configured(f_ret.arg, f_ret.env)
    /\ f_old # {}

-----------------------------------------------------------------------------
(* Properties of the ledger read operations *)

ReadSettled == r_op # "none" /\ r_pc = "done"
ConnectFailure(e) == e.id = "fetch" \/ e.name = "TypeError"

-----------------------------------------------------------------------------
(* Properties of the wallet session *)

Connected == s_connected /\ s_account # Null
Connecting == s_inProgress
NewEvent(src) == s_last'.n # s_last.n /\ s_last'.src = src
ConnectFailed == NewEvent("connect") /\ (s_last'.rejected \/ s_last'.accounts = <<>>)

\* C15 (as stated): Connected is entered only from Connecting, when connect()
\* resolves with at least one identity, and with the first of them; when connect()
\* resolves with no identity or rejects, the session is Disconnected again and a
\* non-empty connection error is set.
C15_ConnectedOnlyFromConnecting ==
    [][/\ (~Connected /\ Connected')
            => /\ Connecting /\ NewEvent("connect")
               /\ Len(s_last'.accounts) >= 1
               /\ s_account' = s_last'.accounts[1]
       /\ ConnectFailed
            => /\ ~s_connected' /\ s_account' = Null /\ ~s_inProgress'
               /\ s_error' \notin {Null, ""}]_vars

\* C15 (amended): Connected is entered only when the wallet resolves with at
\* least one identity, and with the first of them: from Connecting when connect()
\* resolves, or at start-up when reconnectSession() restores a session; when
\* connect() resolves with no identity or rejects, Connecting ends, a non-empty
\* connection error is set and the identity is left as it was.
C15_ConnectedOnWalletIdentity ==
    [][/\ (~Connected /\ Connected')
            => /\ \/ Connecting /\ NewEvent("connect")
                  \/ s_reconnect = "pending" /\ NewEvent("reconnect")
               /\ Len(s_last'.accounts) >= 1
               /\ s_account' = s_last'.accounts[1]
       /\ ConnectFailed
            => /\ s_connected' = s_connected /\ s_account' = s_account
               /\ ~s_inProgress'
               /\ s_error' \notin {Null, ""}
       /\ (Connected /\ ~Connected') => (NewEvent("disconnect") \/ NewEvent("signal"))]_vars

C15_Witness ==
    /\ s_last.src = "connect" /\ s_last.accounts = <<"OTHER", "ADMIN">>
    /\ s_connected /\ s_account = "OTHER" /\ ~s_inProgress

\* C16: once disconnectWallet was called the local session is {identity: null,
\* connected: false}, while the teardown of the remote session is pending, after
\* it succeeded and after it failed.
C16_DisconnectClearsLocally ==
    s_last.src = "disconnect"
        => (s_account = Null /\ ~s_connected /\ s_teardown \in {"pending", "ok", "failed"})

C16_Witness ==
    /\ s_last.src = "disconnect" /\ s_last.n >= 2
    /\ s_teardown = "failed" /\ w_remote
    /\ s_account = Null /\ ~s_connected

\* C17 (as stated): whenever the wallet emits the disconnect signal while the
\* session is Connected, the local session is reset to {identity: null,
\* connected: false}.
C17_SignalResetsSession ==
    [][(Connected /\ NewEvent("signal")) => (s_account' = Null /\ ~s_connected')]_vars

\* C18 (as stated): isAdmin is true exactly when the connected identity equals
\* the configured administrator address, and it is false in the Disconnected
\* state and after any disconnect, local or wallet-initiated.
C18_AdminIffIdentityIsAdmin ==
    /\ isAdmin <=> (s_connected /\ s_account = s_admin)
    /\ ~s_connected => ~isAdmin
    /\ s_last.src \in {"disconnect", "signal"} => ~isAdmin

-----------------------------------------------------------------------------
(* Properties of the provider objects *)

ProviderSettled(op) == pv_last'.n # pv_last.n /\ pv_last'.op = op

\* C21: validateConnection of either backend never throws: it resolves to true
\* only when the probe answered with status 200 and to false on every failure.
C21_ValidateNeverThrows ==
    pv_last.op = "validateConnection"
        => /\ pv_last.kind = "return"
           /\ pv_last.value \in {<<TRUE>>, <<FALSE>>}
           /\ pv_last.value = <<TRUE>> <=> pv_last.answer = 200

\* both backends were probed; the last probe got no response and resolved to false
C21_Witness ==
    /\ pv_last.op = "validateConnection" /\ pv_last.n = 2
    /\ pv_last.answer = 0 /\ pv_last.value = <<FALSE>>

\* C25: getFileUrl returns the gateway base captured at construction followed by
\* the identifier, the same for the same inputs on every call, issues no
\* request and changes no state of the object.
C25_GetFileUrlIsPure ==
    [][ProviderSettled("getFileUrl")
          => /\ \A t \in pv_urls' : t[3] = pv_obj[t[1]] \o <<t[2]>>
             /\ \A t, u \in pv_urls' : (t[1] = u[1] /\ t[2] = u[2]) => t[3] = u[3]
             /\ pv_net' = pv_net
             /\ pv_obj' = pv_obj /\ pv_env' = pv_env /\ pv_pending' = pv_pending]_vars

\* getFileUrl was called twice with the same input, after the environment was
\* re-configured and while a probe was pending
C25_Witness ==
    /\ pv_last.op = "getFileUrl" /\ pv_last.n = 2 /\ Cardinality(pv_urls) = 1
    /\ pv_env.changes = 1 /\ pv_pending # {}
    /\ pv_obj[pv_last.backend] # GatewayUrl(pv_last.backend, pv_env)

-----------------------------------------------------------------------------
(* Properties of the batch runner *)

\* C26: runBatchMigration ends for every configuration, after handing every
\* configured identifier to the migrator exactly once, in input order, in
\* consecutive batches of at most batchSize items.  Ending is stated through the
\* loop of createBatches: a list of n identifiers never gives more than n batches.
C26_BatchRunCoversInput ==
    /\ Len(b_batches) <= Len(b_config.cids)
    /\ b_pc = "done"
          => /\ b_migrated = b_config.cids
             /\ Flatten(b_batches) = b_config.cids
             /\ \A k \in 1..Len(b_batches) :
                   Len(b_batches[k]) \in 1..EffectiveBatchSize(b_config)

\* C31: after the asset identifier has been extracted, createTitle issues at most
\* 3 indexer lookups, each one after the first preceded by one fixed delay of
\* 1000 ms; it returns the extracted identifier at the first lookup whose name
\* equals the land ID and whose url equals the expected metadata url, and leaves
\* the loop after the third attempt that did not match or threw.
C31_VerificationLoopBounded ==
    LET expected(params) ==
            params.name = ct.landId /\ params.url = StripIpfs(ct.metadataUrl)
    IN  /\ ct.lookups <= 3 /\ ct.attempt <= 3
        /\ ct.pc = "verify"
              => /\ ct.assetId # 0 /\ ct.attempt < 3
                 /\ ct.lookups = ct.attempt
                 /\ ct.waited = 1000 * ct.attempt
                 /\ ~expected(ct.found)
        /\ ct.pc = "pending"
              => /\ ct.lookups = 3 /\ ct.attempt = 3 /\ ~expected(ct.found)
                 /\ ct.waited \in {2000, 3000}
        /\ (ct.lookups > 0 /\ result.kind = "return")
              => /\ expected(ct.found) /\ result.value = ct.assetId
                 /\ ct.lookups = ct.attempt + 1
                 /\ ct.waited = 1000 * ct.attempt
        /\ (ct.lookups > 0 /\ expected(ct.found))
              => ct.pc = "done" /\ result = Returned(ct.assetId)

\* the third lookup matched after a mismatch and a failed lookup
C31_Witness ==
    /\ result.kind = "return" /\ ct.lookups = 3 /\ ct.waited = 2000
    /\ ct.metadataUrl = "ipfs://QmA" /\ ct.found.url = "QmA"

\* C33: after a confirmed create_title call the extraction has three outcomes.
\* If an inner transaction carries an asset index, the first such index in list
\* order is the asset identifier. If the list is empty, createTitle fails with
\* the no-inner-transactions error. If the list is not empty and no entry
\* carries an index, it fails with the other, could-not-find error. The two
\* failures reach the caller as different errors, and neither carries or
\* returns an asset identifier.
C33_ExtractionOutcomes ==
    LET inner == ct.innerTxns
        carriers == {k \in 1..Len(inner) : inner[k] # 0}
        first == CHOOSE k \in carriers : \A j \in carriers : k <= j
        extractionFailed ==
            /\ ct.pc = "done" /\ ct.assetId = 0 /\ ct.lookups = 0
            /\ result.kind = "throw" /\ result.value = 0 /\ result.assetId = 0
            /\ result.msg = "FailedToCreateTitle"
    IN  (HasEvent("confirm_appcall") /\ ct.pc # "extract")
           => /\ carriers # {}
                    => /\ ct.assetId = inner[first]
                       /\ result.inner \notin {"NoInnerTxns", "NoAssetIndex"}
                       /\ result.kind = "return" => result.value = inner[first]
              /\ Len(inner) = 0
                    => extractionFailed /\ result.inner = "NoInnerTxns"
              /\ (Len(inner) > 0 /\ carriers = {})
                    => extractionFailed /\ result.inner = "NoAssetIndex"

\* the second of two inner transactions is the first to carry an index
C33_Witness ==
    /\ HasEvent("confirm_appcall") /\ ct.pc = "verify"
    /\ Len(ct.innerTxns) = 2 /\ ct.innerTxns[1] = 0 /\ ct.assetId = ct.innerTxns[2]

RECURSIVE Occurrences(_, _)
Occurrences(seq, ev) ==
    IF seq = <<>> THEN 0
    ELSE (IF Head(seq) = ev THEN 1 ELSE 0) + Occurrences(Tail(seq), ev)

SubmitEvents == {"submit_funding", "submit_appcall",
                 "submit_admin_transfer", "submit_user_transfer"}
WriteEvents(o) ==
    IF o = "createTitle"
       THEN {"build_funding", "sign_funding", "submit_funding", "confirm_funding",
             "build_appcall", "sign_appcall", "submit_appcall", "confirm_appcall"}
       ELSE {TransferEvent(st, o) : st \in {"build", "sign", "submit", "confirm"}}

\* position of a step in the straight-line order of its operation
StepOrder(pc) ==
    CASE pc \in {"start", "transfer"}   -> 0
      [] pc = "params"                  -> 1
      [] pc = "contractInfo"            -> 2
      [] pc = "fundSign"                -> 3
      [] pc \in {"fundSubmit"}          -> 4
      [] pc = "fundConfirm"             -> 5
      [] pc = "fundReread"              -> 6
      [] pc = "adminCheck"              -> 7
      [] pc = "build"                   -> 8
      [] pc \in {"sign", "t_sign"}      -> 9
      [] pc \in {"submit", "t_submit"}  -> 10
      [] pc \in {"confirm", "t_confirm"} -> 11
      [] pc = "extract"                 -> 12
      [] pc = "verify"                  -> 13
      [] pc = "pending"                 -> 14
      [] pc = "done"                    -> 15

\* C36: within one invocation createTitle submits at most one funding payment
\* and at most one create_title call, and each transfer operation at most one
\* application call; every step that can submit is passed at most once, so
\* nothing is submitted again after a failure, and the only step an invocation
\* repeats is the indexer lookup of the verification loop, which submits nothing.
C36_WritesSubmittedOnce ==
    /\ [](/\ \A ev \in SubmitEvents : Occurrences(events, ev) <= 1
          /\ \A k \in 1..Len(events) : events[k] \in WriteEvents(ct.op))
    /\ [][ct' # ct =>
             \/ StepOrder(ct'.pc) > StepOrder(ct.pc)
             \/ /\ ct.pc = "verify" /\ ct'.pc = "verify"
                /\ ct'.lookups = ct.lookups + 1 /\ ct'.lookups <= maxRetries
                /\ events' = events]_vars
    /\ [][events' # events =>
             /\ Len(events') = Len(events) + 1
             /\ StepOrder(ct'.pc) > StepOrder(ct.pc)]_vars
    /\ [][ct.pc = "done" => (ct' = ct /\ events' = events /\ result' = result)]_vars

\* the funding payment was submitted and its confirmation failed, the
\* create_title call was still submitted, once, and the verification loop
\* repeated its lookup three times
C36_Witness ==
    /\ ct.op = "createTitle" /\ ct.fundState = "failed"
    /\ Occurrences(events, "submit_funding") = 1
    /\ Occurrences(events, "submit_appcall") = 1
    /\ ct.lookups = maxRetries /\ ct.pc = "done" /\ result.kind = "throw"

\* C32: getAssetInfo makes at most 3 lookup attempts, with one delay of 1000 ms
\* between consecutive attempts; it returns the asset at the first attempt that
\* succeeds, and it ends by throwing after the third failed attempt, whatever
\* mix of not-found and other errors the attempts met.
C32_InfoRetryBounded ==
    r_op = "getAssetInfo"
       => /\ r_attempt <= 3
          /\ r_pc \in {"fetch", "lookup"}
                => r_attempt \in 1..3 /\ r_waited = 1000 * (r_attempt - 1)
          /\ r_pc = "delay" => r_attempt < 3 /\ r_err # NoReadErr
          /\ (r_pc = "done" /\ r_result.kind = "throw")
                => r_attempt = 3 /\ r_waited = 2000 /\ r_result.err = r_err
          /\ (r_pc = "done" /\ r_result.kind = "return")
                => /\ r_result.value = "asset"
                   /\ r_attempt \in 1..3 /\ r_waited = 1000 * (r_attempt - 1)
          /\ r_pc = "done" => r_result # NoRead

\* the third attempt failed with a server error and the operation threw it
C32_Witness ==
    /\ r_op = "getAssetInfo" /\ r_pc = "done"
    /\ r_result.kind = "throw" /\ r_result.err.id = "500" /\ r_waited = 2000

-----------------------------------------------------------------------------
(* Properties of two racing createTitle runs *)

-----------------------------------------------------------------------------
(* Properties of the writes started from the pages *)

\* C29: at most one write operation (create-title, admin-transfer,
\* user-transfer) of the connected caller is in flight at any time, whichever
\* form or page a second one would be started from.
C29_OneWriteInFlight == Cardinality(InFlight) <= 1

\* C38: in every reachable state of the session context, connected is true
\* exactly when the identity is non-null, and connectionInProgress is true
\* exactly while a connectWallet call is waiting for the wallet: it is false again
\* once that call has ended in success, zero identities or an error.
C38_SessionFlagsConsistent ==
    /\ s_connected <=> s_account # Null
    /\ s_inProgress <=> s_connect = "pending"
    /\ s_account \in {Null, "ADMIN", "OTHER"}

\* the start-up reconnect delivered an identity after disconnectWallet had been
\* called and before the wallet's teardown settled
C38_Witness ==
    /\ s_last.src = "reconnect" /\ s_connected /\ s_account # Null
    /\ s_teardown = "pending" /\ ~s_inProgress

-----------------------------------------------------------------------------
(* Properties of the migrator's mappings *)

\* C37: cidMappings holds exactly the originals that had a successful migration,
\* each mapped to the newCid of its latest successful migration; a failed item
\* changes no entry; and changing the Map returned by getCidMappings does not
\* change cidMappings.
C37_MappingsAreLatestSuccesses ==
    /\ [](cidMappings = m_lastOk)
    /\ [][(m_op = "migrateAll" /\ ms_pc \in {"resolved", "threw"}
            /\ ~(ms_pc = "resolved" /\ ms_result.success)) => cidMappings' = cidMappings]_vars
    /\ [][m_copy' # m_copy => cidMappings' = cidMappings]_vars

\* an original migrated successfully twice is mapped to the second identifier,
\* and a caller has edited a Map it was handed
C37_Witness ==
    /\ \E c \in Cids :
          /\ \E k \in 1..Len(m_report.results) :
                /\ m_report.results[k].success /\ m_report.results[k].originalCid = c
                /\ m_report.results[k].newCid # cidMappings[c]
          /\ cidMappings[c] # ""
    /\ m_copy.held /\ m_edits = 1 /\ m_copy.map # cidMappings

-----------------------------------------------------------------------------
(* Properties of the migration dashboard *)

\* C34: the ContentMigrator of a migration started from the dashboard has a
\* source provider and a target provider of different backend types, whatever
\* credentials are configured.
C34_MigratorBackendsDiffer ==
    d_migrator.kind = "made" => d_migrator.source # d_migrator.target

-----------------------------------------------------------------------------
(* Properties of the forms *)

\* a handler step sets the success message or empties the fields of form f
SuccessMutation(f) ==
    \/ fm'[f].success # "" /\ fm'[f].success # fm[f].success
    \/ fm[f].data # "" /\ fm'[f].data = ""
    \/ fm[f].doc # "" /\ fm'[f].doc = ""

\* a handler run of form f ends on a failure path with the entries kept
FailureKeepsEntries(f) ==
    (fm[f].pc # "idle" /\ fm'[f].pc = "idle" /\ fm'[f].last = "failure")
        => /\ fm'[f].data = fm[f].data /\ fm'[f].doc = fm[f].doc
           /\ fm'[f].error # "" /\ fm'[f].success = ""

\* C35 (as stated): in the three forms, the success message is set and the form
\* fields and document are reset only by the step in which the awaited write
\* returned; on every failure path the entries stay as they were and an error
\* message is set.
C35_MutationOnlyAfterSuccess ==
    [][\A f \in Forms :
          /\ SuccessMutation(f) => (fm[f].pc = "write" /\ fm'[f].last = "success")
          /\ FailureKeepsEntries(f)]_vars

\* C35 (amended): as stated, except that submitting the MyTitles transfer form
\* for a demo title in demo mode sets a demo success message and resets the
\* fields without calling any write operation.
C35_MutationAfterSuccessOrDemo ==
    [][\A f \in Forms :
          /\ SuccessMutation(f)
                => \/ fm[f].pc = "write" /\ fm'[f].last = "success"
                   \/ /\ f = "userTransfer" /\ fm_demo /\ fm[f].title = "demo"
                      /\ fm[f].pc = "idle" /\ fm'[f].last = "demo" /\ ~fm'[f].wrote
          /\ FailureKeepsEntries(f)]_vars

\* the create form failed with its entries kept; a transfer succeeded and reset
C35_Witness ==
    /\ fm["create"].last = "failure" /\ fm["create"].wrote
    /\ fm["create"].data # "" /\ fm["create"].doc # "" /\ fm["create"].error # ""
    /\ fm["adminTransfer"].last = "success" /\ fm["adminTransfer"].data = ""
    /\ fm["userTransfer"].last = "failure" /\ fm["userTransfer"].data # ""

\* C40: submitting the create form runs createTitle with the connected identity
\* as caller, the form's land ID and the uploaded metadata URL as arguments and
\* the session's wallet connector as the signing object; with a funded account
\* and an approving wallet the submission ends in the success state.
C40_FormRunsCreateProtocol ==
    LET c == fm["create"]
    IN  c.wrote
          => /\ c.params.account = SessionAccount
             /\ c.params.metadataUrl = UploadedUrl
             /\ c.params.peraWallet = Connector
             /\ c.pc = "write" => c.params.landId = c.data
             /\ (c.pc = "idle" /\ c.cond = "good") => c.last = "success"

-----------------------------------------------------------------------------
(* Specifications *)

TitleIdle ==
    /\ asset = [name |-> Name_Valid, url |-> "QmA", decimals |-> 0, total |-> 1,
                unitName |-> "ARDHI", creator |-> Creator]
    /\ holder = Creator
    /\ optedIn = {Creator}
    /\ history = <<CreationTx>>
    /\ round = 1

FactoryIdle ==
    /\ f_env = [pinataKeys |-> TRUE, nodelyKey |-> TRUE, provider |-> "", changes |-> 0]
    /\ instance = NoInstance
    /\ f_made = 0 /\ f_calls = 0 /\ f_ret = NoCall
    /\ f_epoch = {} /\ f_old = {}

MigIdle ==
    /\ srcStore = [c \in Cids |-> Missing]
    /\ tgtStore = [n \in NewCids |-> Missing]
    /\ InitMigrator
    /\ InitRollback

CreateIdle ==
    /\ acctBal = 1000000 /\ ctrBal = 500000 /\ ctrAssets = 0
    /\ storedAdmin = "ADMIN" /\ drift = 0
    /\ chainAssets = InitAssets
    /\ ct = Locals("idle", "ADMIN", "LR/2024/001", "QmA")
    /\ events = <<>>
    /\ result = NoResult

NextCreate ==
    \/ CT_Preflight \/ CT_GetParams \/ CT_ContractInfo
    \/ CT_FundSign \/ CT_FundSubmit \/ CT_FundConfirm \/ CT_FundReread
    \/ CT_AdminCheck \/ CT_BuildAppCall \/ CT_Sign \/ CT_Submit \/ CT_Confirm
    \/ CT_Extract \/ CT_Verify \/ CT_Pending
    \/ LedgerDrift

AppIdle ==
    /\ InitWallet /\ w_stored = <<>>
    /\ InitSession /\ s_admin = "ADMIN"

ProvidersIdle ==
    /\ pv_env = [pinata |-> "", nodely |-> "", changes |-> 0]
    /\ pv_obj = [b \in Backends |-> GatewayUrl(b, pv_env)]
    /\ pv_pending = {} /\ pv_net = 0 /\ pv_calls = 0
    /\ pv_last = NoProviderCall /\ pv_urls = {}

BatchIdle ==
    /\ b_config = [cids |-> <<>>, batchSize |-> 0, delayBetweenBatches |-> 0]
    /\ b_pc = "done" /\ b_i = 0 /\ b_batches = <<>> /\ b_k = 0
    /\ b_migrated = <<>> /\ b_saved = 0 /\ b_waits = 0

RaceIdle == race = [r \in Runs |-> RunLocals("idle", "ADMIN")]

WritesIdle ==
    /\ w_page = "/admin"
    /\ w_isLoading = FALSE /\ w_isTransferring = FALSE /\ w_myTransferring = FALSE
    /\ w_flight = <<>>

DashIdle ==
    /\ d_env = [pinataKeys |-> TRUE, nodelyKey |-> TRUE, provider |-> "", changes |-> 0]
    /\ d_source = "pinata" /\ d_target = "nodely"
    /\ d_isLoading = FALSE
    /\ d_migrator = NoMigrator
    /\ d_runs = 0

FormsIdle == fm_demo = FALSE /\ fm = [f \in Forms |-> EmptyForm]

PagesIdle == DashIdle /\ FormsIdle

ExtIdle == ProvidersIdle /\ BatchIdle /\ RaceIdle /\ WritesIdle /\ PagesIdle

RestIdle == FactoryIdle /\ InitReads /\ AppIdle /\ ExtIdle

InitCreate == InitLedger /\ InitRun /\ TitleIdle /\ InitSearch /\ MigIdle /\ RestIdle

SpecCreate == InitCreate /\ [][NextCreate]_vars

\* createTitle and the two transfer operations, one invocation per behaviour
InitSubmit ==
    /\ InitLedger
    /\ \/ /\ InitRun
          /\ ct.account = "ADMIN" /\ ct.landId = "LR/2024/001"
       \/ InitTransfer
    /\ TitleIdle /\ InitSearch /\ MigIdle /\ RestIdle

NextSubmit ==
    \/ CT_Preflight \/ CT_GetParams \/ CT_ContractInfo
    \/ CT_FundSign \/ CT_FundSubmit \/ CT_FundConfirm \/ CT_FundReread
    \/ CT_AdminCheck \/ CT_BuildAppCall \/ CT_Sign \/ CT_Submit \/ CT_Confirm
    \/ CT_Extract \/ CT_Verify \/ CT_Pending
    \/ LedgerDrift
    \/ TR_GetParams \/ TR_Sign \/ TR_Submit \/ TR_Confirm

SpecSubmit == InitSubmit /\ [][NextSubmit]_vars

InitVerify == CreateIdle /\ InitTitle /\ InitSearch /\ MigIdle /\ RestIdle

NextVerify ==
    \/ L_OptIn \/ L_Transfer
    \/ V_Search \/ V_AssetInfo \/ V_ResolveOwner \/ V_Metadata \/ V_Assemble

SpecVerify == InitVerify /\ [][NextVerify]_vars

InitMigrate ==
    /\ CreateIdle /\ TitleIdle /\ InitSearch /\ RestIdle
    /\ InitStores /\ InitMigrator /\ InitRollback

NextMigrate ==
    \/ MS_Call \/ MS_Fetch \/ MS_Upload \/ MS_Return
    \/ MA_Call \/ MA_Item \/ MA_Record \/ MA_Delay \/ MA_Return
    \/ VA_Call \/ VA_Pair \/ VA_Return
    \/ MR_Rollback

SpecMigrate == InitMigrate /\ [][NextMigrate]_vars

\* migrateAllContent runs on one migrator, with callers reading the mappings
InitMappings ==
    /\ CreateIdle /\ TitleIdle /\ InitSearch /\ RestIdle
    /\ srcStore \in [Cids -> {JsonAB, Missing}]
    /\ tgtStore = [n \in NewCids |-> Missing]
    /\ InitMigrator /\ InitRollback

NextMappings ==
    \/ MS_Fetch \/ MS_Upload
    \/ MA_Call \/ MA_Item \/ MA_Record \/ MA_Delay \/ MA_Return
    \/ MG_GetCidMappings \/ MG_EditCopy

SpecMappings == InitMappings /\ [][NextMappings]_vars

InitFactoryRun ==
    /\ CreateIdle /\ TitleIdle /\ InitSearch /\ MigIdle /\ InitFactory /\ InitReads /\ AppIdle
    /\ ExtIdle

NextFactory == F_Create \/ F_GetInstance \/ F_ResetInstance \/ F_Configure

SpecFactory == InitFactoryRun /\ [][NextFactory]_vars

InitReadRun ==
    /\ CreateIdle /\ TitleIdle /\ InitSearch /\ MigIdle /\ FactoryIdle /\ InitReads /\ AppIdle
    /\ ExtIdle

NextReads ==
    \/ R_Call \/ R_Search \/ R_AccountAssets \/ R_ContractAccount \/ R_ContractAssets
    \/ R_InfoFetch \/ R_InfoLookup \/ R_InfoDelay \/ R_Transactions

SpecReads == InitReadRun /\ [][NextReads]_vars

InitSessionRun ==
    /\ CreateIdle /\ TitleIdle /\ InitSearch /\ MigIdle /\ FactoryIdle /\ InitReads
    /\ InitWallet /\ InitSession /\ ExtIdle

NextSession ==
    \/ S_Mount \/ S_ReconnectSettles \/ S_Connect \/ S_ConnectSettles
    \/ S_Disconnect \/ S_TeardownSettles \/ S_WalletSignal

SpecSession == InitSessionRun /\ [][NextSession]_vars

InitProviderRun ==
    /\ CreateIdle /\ TitleIdle /\ InitSearch /\ MigIdle /\ FactoryIdle /\ InitReads /\ AppIdle
    /\ InitProviders /\ BatchIdle /\ RaceIdle /\ WritesIdle /\ PagesIdle

NextProviders == PV_Configure \/ PV_Validate \/ PV_ProbeSettles \/ PV_GetFileUrl

SpecProviders == InitProviderRun /\ [][NextProviders]_vars

InitBatchRun ==
    /\ CreateIdle /\ TitleIdle /\ InitSearch /\ MigIdle /\ FactoryIdle /\ InitReads /\ AppIdle
    /\ ProvidersIdle /\ InitBatch /\ RaceIdle /\ WritesIdle /\ PagesIdle

NextBatch == B_Start \/ B_Slice \/ B_Migrate \/ B_Save \/ B_Delay

SpecBatch == InitBatchRun /\ [][NextBatch]_vars

InitRaceRun ==
    /\ acctBal = 1000000 /\ drift = 0 /\ chainAssets = InitAssets
    /\ ct = Locals("idle", "ADMIN", "LR/2024/001", "QmA")
    /\ events = <<>> /\ result = NoResult
    /\ TitleIdle /\ InitSearch /\ MigIdle /\ FactoryIdle /\ InitReads /\ AppIdle
    /\ ProvidersIdle /\ BatchIdle /\ WritesIdle /\ PagesIdle
    /\ InitRace

NextRace ==
    \E r \in Runs :
        \/ X_ContractInfo(r) \/ X_Fund(r) \/ X_Reread(r)
        \/ X_AdminCheck(r) \/ X_Call(r) \/ X_Confirm(r)

SpecRace == InitRaceRun /\ [][NextRace]_vars

InitWriteRun ==
    /\ CreateIdle
    /\ TitleIdle /\ InitSearch /\ MigIdle /\ FactoryIdle /\ InitReads /\ AppIdle
    /\ ProvidersIdle /\ BatchIdle /\ RaceIdle /\ PagesIdle
    /\ InitWrites

NextWrites ==
    \/ \E p \in Pages : W_Navigate(p)
    \/ W_SubmitCreate
    \/ W_SubmitAdminTransfer
    \/ W_SubmitUserTransfer
    \/ \E i \in 1..MaxWrites : W_Settle(i)

SpecWrites == InitWriteRun /\ [][NextWrites]_vars

InitDashRun ==
    /\ CreateIdle
    /\ TitleIdle /\ InitSearch /\ MigIdle /\ FactoryIdle /\ InitReads /\ AppIdle
    /\ ProvidersIdle /\ BatchIdle /\ RaceIdle /\ WritesIdle /\ FormsIdle
    /\ InitDash

NextDash ==
    \/ \E b \in Backends : D_SelectSource(b)
    \/ \E b \in Backends : D_SelectTarget(b)
    \/ D_Start
    \/ D_Finish

SpecDash == InitDashRun /\ [][NextDash]_vars

InitFormRun ==
    /\ CreateIdle
    /\ TitleIdle /\ InitSearch /\ MigIdle /\ FactoryIdle /\ InitReads /\ AppIdle
    /\ ProvidersIdle /\ BatchIdle /\ RaceIdle /\ WritesIdle /\ DashIdle
    /\ InitForms

NextForms ==
    \/ \E f \in Forms : U_Fill(f)
    \/ \E f \in Forms : U_Submit(f)
    \/ U_UploadFile
    \/ U_UploadJSON
    \/ \E f \in Forms : U_WriteSettles(f)

SpecForms == InitFormRun /\ [][NextForms]_vars

====
